---- MODULE Spec2Model ----
(***************************************************************************)
(* Model of the go-auth service: the session ledger (auth.go), the         *)
(* password-reset ledger (password_reset.go), the OAuth state guard and    *)
(* account-linking engine (oauth.go) and the unlink operation (user.go).   *)
(*                                                                         *)
(* The database tables are sets of rows.  Every HTTP request is a process  *)
(* (a slot of Procs) that runs its handler one database statement at a     *)
(* time, so requests interleave exactly where the code leaves the          *)
(* database between two statements.  A gorm transaction is two steps: the  *)
(* reads that decide the branch, and the writes applied at the commit      *)
(* point, where the unique indexes are checked.                            *)
(***************************************************************************)
EXTENDS Integers, Sequences, FiniteSets, TLC

\* ------------------------------------------------------------------ bounds
MaxProcs    == 2      \* concurrent requests in flight
MaxSessions == 2      \* session rows ever created
MaxJTI      == 3      \* uuids ever drawn by GetSignedKey
MaxStates   == 2      \* oauth_states rows ever created
MaxResets   == 2      \* password_resets rows ever created
MaxTicks    == 1      \* times the clock advances

Procs == 1..MaxProcs

\* ------------------------------------------------------- program constants
OAuthStateTTL   == 10      \* minutes
SessionTTL      == 43200   \* 30 * 24 * 60 minutes
JWTTTL          == 5       \* minutes
RateLimitWindow == 15      \* minutes
ResetTTL        == 60      \* minutes
MinStateLen     == 32
GeneratedStateLen == 44    \* base64.URLEncoding of 32 random bytes
UsernameCeiling == 1000

AccountTypeEmail  == "email"
AccountTypeOAuth  == "oauth"
AccountTypeHybrid == "hybrid"
OAuthProviderGoogle == "google"
OAuthProviderGithub == "github"
Providers == {OAuthProviderGoogle, OAuthProviderGithub}

\* ------------------------------------------------------------ input spaces
Emails      == {"a@x.com", "b@x.com"}
\* the emails of provider profiles: those of the requests and one with
\* capitals
ProfileEmails == Emails \cup {"Bob@x.com"}
LocalPart   == [e \in ProfileEmails |->
                  IF e = "a@x.com" THEN "a" ELSE IF e = "b@x.com" THEN "b" ELSE "Bob"]
Passwords   == {"pw1", "pw2"}
ProviderIDs == {"101", "102"}
UserAgents  == {"ua1", "ua2"}
IPs         == {"ip1"}
\* a username is <<base, n>>: n = 0 is "base", n > 0 is "base_n"
RegUsernames == {<<"a", 0>>, <<"bob", 0>>}
\* an OAuth state string: 0 is "", -1 is a short unknown string, k > 0 is the
\* k-th value drawn by GenerateOAuthState
BogusState == -1
\* a refresh-token cleartext: k > 0 is the k-th value drawn by
\* GenerateRefreshToken, 0 is a string nobody generated
BogusToken == 0

EmptyString == <<>>

VARIABLES
    users,          \* table users
    oauthAccounts,  \* table oauth_accounts, live rows (deleted_at IS NULL)
    sessions,       \* table sessions
    oauthStates,    \* table oauth_states
    passwordResets, \* table password_resets
    now,            \* wall clock, minutes
    nextID,         \* autoincrement / random-draw counters
    procs,          \* the requests in flight and their last responses
    cookies,        \* refresh-token cleartexts handed to clients
    issued,         \* bearer tokens handed to clients
    mailbox,        \* the mails handed to the detached senders, with their fate
    consumeLog,     \* history: the state values whose state check has returned
    revokedByReset  \* history: the sessions a successful confirm has revoked

vars == <<users, oauthAccounts, sessions, oauthStates, passwordResets, now,
          nextID, procs, cookies, issued, mailbox, consumeLog, revokedByReset>>

\* ------------------------------------------------------------ row shapes
NoUser    == [ID |-> 0, Username |-> <<"", 0>>, Email |-> "", Password |-> EmptyString,
              AccountType |-> ""]
NoOAuthAccount == [ID |-> 0, UserID |-> 0, Provider |-> "", ProviderID |-> "", Email |-> ""]
NoSession == [ID |-> 0, JTI |-> 0, UserID |-> 0, RefreshToken |-> EmptyString,
              Revoked |-> FALSE, IssuedAt |-> 0, ExpiresAt |-> 0]
NoOAuthState == [ID |-> 0, State |-> 0, Provider |-> "", Nonce |-> 0, UserAgent |-> "",
                 IPAddress |-> "", ExpiresAt |-> 0]
NoPasswordReset == [ID |-> 0, Email |-> "", Token |-> EmptyString, Used |-> FALSE,
                    CreatedAt |-> 0, ExpiresAt |-> 0]
NoJWT     == [jti |-> 0, sub |-> 0, exp |-> 0]

\* a request slot: what the handler was called with, where it is, what it
\* has read so far, and (at pc = "done") the response it produced
Idle == [op |-> "none", pc |-> "done", code |-> 0, action |-> "", jwt |-> NoJWT,
         email |-> "", username |-> <<"", 0>>, password |-> "", provider |-> "",
         providerID |-> "", state |-> 0, ua |-> "", ip |-> "", qcode |-> "",
         refreshToken |-> 0, bearer |-> NoJWT, token |-> 0,
         user |-> NoUser, passwordReset |-> NoPasswordReset, session |-> NoSession, oauthState |-> NoOAuthState,
         oauthAccount |-> NoOAuthAccount, branch |-> "", prior |-> FALSE, ran |-> FALSE,
         mismatch |-> FALSE, found |-> FALSE, suffix |-> 0]

\* ------------------------------------------------------------ pure helpers
\* utils.HashPassword: bcrypt digest of the password
HashPassword(password) == <<"bcrypt", password>>

\* utils.ComparePassword: bcrypt.CompareHashAndPassword fails on an empty or
\* malformed hash
ComparePassword(password, hash) == hash = <<"bcrypt", password>>

\* utils.HashTokenSHA256: hex sha256 of the token
HashTokenSHA256(token) == <<"sha256", token>>

\* gorm First: the row with the smallest primary key, the zero row if none
First(rows, none) ==
    IF rows = {} THEN none
    ELSE CHOOSE r \in rows : \A q \in rows : r.ID <= q.ID

\* gorm Save: write every column of the row held in memory
Save(rows, row) == {IF r.ID = row.ID THEN row ELSE r : r \in rows}

\* utils.GetSignedKey: a fresh uuid and a token signed over (sub, jti, exp)
GetSignedKey(id) ==
    [jti |-> nextID.jti, sub |-> id, exp |-> now + JWTTTL]

\* length of an OAuth state string
StateLen(state) ==
    IF state = 0 THEN 0 ELSE IF state < 0 THEN 1 ELSE GeneratedStateLen

\* the validation with the column size (64) taken for the minimum length
ValidateOAuthStateStrict(state, nonce, userAgent, ipAddress) ==
    ~(state = 0) /\ ~(StateLen(state) < 64)

\* utils.ValidateOAuthState: TRUE iff it returns nil
ValidateOAuthState(state, nonce, userAgent, ipAddress) ==
    ~(state = 0) /\ ~(StateLen(state) < MinStateLen)

\* strings.ToLower, on the local parts of the profile emails
ToLower(str) == IF str = "Bob" THEN "bob" ELSE str

\* generateUsernameFromOAuth: lower-cased local part of the email (the
\* profiles of the model have an email, so the fallbacks to the name and to
\* "user" are not taken)
generateUsernameFromOAuth(email) == <<ToLower(LocalPart[email]), 0>>

\* ensureUniqueUsername: the loop from suffix n on; <<"", -1>> is the error
\* a next candidate that is one suffix ahead
nextCandidateAhead(baseUsername, suffix) == <<baseUsername[1], suffix + 1>>

\* ensureUniqueUsername: fmt.Sprintf("%s_%d", baseUsername, suffix)
nextCandidate(baseUsername, suffix) == <<baseUsername[1], suffix>>

RECURSIVE ensureUniqueFrom(_, _, _)
ensureUniqueFrom(rows, username, suffix) ==
    IF \A u \in rows : u.Username # username THEN username
    ELSE IF suffix + 1 > UsernameCeiling THEN <<"", -1>>
    ELSE ensureUniqueFrom(rows, nextCandidate(username, suffix), suffix + 1)

ensureUniqueUsername(rows, baseUsername) == ensureUniqueFrom(rows, baseUsername, 1)

\* reply of a handler q: the response code, the action tag and the bearer
\* token; the request's locals die with it, and of its inputs only the state
\* value, the tokens presented, the profile an OAuth callback was given, the
\* email a reset was requested for and the history flags stay on record
Reply(q, code, action, jwt) ==
    [Idle EXCEPT !.op = q.op, !.code = code, !.action = action, !.jwt = jwt,
                 !.state = q.state, !.bearer = q.bearer,
                 !.provider = IF q.op = "OAuthCallback" THEN q.provider ELSE "",
                 !.providerID = IF q.op = "OAuthCallback" THEN q.providerID ELSE "",
                 !.email = IF q.op \in {"OAuthCallback", "RequestPasswordReset"}
                           THEN q.email ELSE "",
                 !.refreshToken = q.refreshToken, !.token = q.token,
                 !.prior = q.prior,
                 !.ran = q.ran, !.mismatch = q.mismatch, !.found = q.found]

Free(p) == procs[p].pc = "done"

\* ---------------------------------------------------------- error handler
StatusInternalServerError == 500

\* fiber.NewError(code, message)
NewError(code) == [fiber |-> TRUE, code |-> code]

\* fmt.Errorf("...: %w", err) of an error of the store: not a *fiber.Error
Errorf == [fiber |-> FALSE, code |-> StatusInternalServerError]

\* main.go ErrorHandler: code is 500 unless errors.As finds a *fiber.Error e,
\* then e.Code; the message of the body is e.Error(), and e is nil when
\* errors.As found none: the call dereferences nil and the handler panics
\* before it writes a response (code 0)
ErrorHandler(err) ==
    LET code == IF err.fiber THEN err.code ELSE StatusInternalServerError
    IN IF err.fiber THEN [code |-> code, action |-> "error"]
       ELSE [code |-> 0, action |-> "panic"]

\* ------------------------------------------------------------------- Init
Init ==
    /\ users = {}
    /\ oauthAccounts = {}
    /\ sessions = {}
    /\ oauthStates = {}
    /\ passwordResets = {}
    /\ now = 0
    /\ nextID = [user |-> 1, oauth |-> 1, session |-> 1, jti |-> 1, token |-> 1,
                 state |-> 1, reset |-> 1, tick |-> 1]
    /\ procs = [p \in Procs |-> Idle]
    /\ cookies = {}
    /\ issued = {}
    /\ mailbox = {}
    /\ consumeLog = {}
    /\ revokedByReset = {}

\* a session row that stores the cleartext of its refresh token
NewSessionCleartext(userID, jwt, token) ==
    [ID |-> nextID.session, JTI |-> jwt.jti, UserID |-> userID,
     RefreshToken |-> <<"cleartext", token>>, Revoked |-> FALSE,
     IssuedAt |-> now, ExpiresAt |-> now + SessionTTL]

\* a new session row for a user, as Register, Login and the OAuth branches
\* build it
NewSession(userID, jwt, token) ==
    [ID |-> nextID.session, JTI |-> jwt.jti, UserID |-> userID,
     RefreshToken |-> HashTokenSHA256(token), Revoked |-> FALSE,
     IssuedAt |-> now, ExpiresAt |-> now + SessionTTL]

CanMint == nextID.session <= MaxSessions /\ nextID.jti <= MaxJTI

\* --------------------------------------------------------------- Register
\* auth.go Register, up to db.Create(&user)
Register(p, username, email, password) ==
    /\ Free(p)
    /\ CanMint
    /\ LET user == [ID |-> nextID.user, Username |-> username, Email |-> email,
                    Password |-> HashPassword(password),
                    AccountType |-> AccountTypeEmail]
           start == [Idle EXCEPT !.op = "Register", !.username = username,
                                 !.email = email, !.password = password]
       IN IF \E u \in users : u.Username = username \/ u.Email = email
          THEN /\ procs' = [procs EXCEPT ![p] = Reply(start, 400, "exists", NoJWT)]
               /\ UNCHANGED <<users, nextID>>
          ELSE /\ users' = users \cup {user}
               /\ nextID' = [nextID EXCEPT !.user = @ + 1]
               /\ procs' = [procs EXCEPT ![p] =
                              [start EXCEPT !.pc = "session", !.user = user]]
    /\ UNCHANGED <<oauthAccounts, sessions, oauthStates, passwordResets, now,
                   cookies, issued, mailbox, consumeLog, revokedByReset>>

\* a mail that the handler sends itself, returning when it is sent
NewMailInline(kind, to, token, delivered) ==
    [kind |-> kind, to |-> to, token |-> token, status |-> "sent"]

\* go func(...) { client.Send(...) }: the mail handed to a goroutine of its
\* own; the goroutine has delivered it when the next step is taken, or is
\* still at it
NewMail(kind, to, token, delivered) ==
    [kind |-> kind, to |-> to, token |-> token,
     status |-> IF delivered THEN "sent" ELSE "pending"]

\* the reset-token cleartexts that reached their recipient
Mailed == {m.token : m \in {x \in mailbox : x.kind = "reset" /\ x.status = "sent"}}

\* the goroutine of a mail ends: client.Send returned nil, returned an
\* error, or ran into the deadline of its context; the goroutine drops the
\* error
MailDispatch(m, outcome) ==
    /\ m \in mailbox /\ m.status = "pending"
    /\ mailbox' = (mailbox \ {m}) \cup {[m EXCEPT !.status = outcome]}
    /\ UNCHANGED <<users, oauthAccounts, sessions, oauthStates, passwordResets, now,
                   nextID, procs, cookies, issued, consumeLog, revokedByReset>>

\* auth.go Register, from GetSignedKey to the response; the welcome mail is
\* handed to a goroutine
RegisterSession(p, delivered) ==
    /\ procs[p].op = "Register" /\ procs[p].pc = "session"
    /\ LET jwt == GetSignedKey(procs[p].user.ID)
           token == nextID.token
       IN /\ sessions' = sessions \cup {NewSession(procs[p].user.ID, jwt, token)}
          /\ nextID' = [nextID EXCEPT !.session = @ + 1, !.jti = @ + 1, !.token = @ + 1]
          /\ cookies' = cookies \cup {token}
          /\ issued' = issued \cup {jwt}
          /\ mailbox' = mailbox \cup
                          {NewMail("welcome", procs[p].user.Email, 0, delivered)}
          /\ procs' = [procs EXCEPT ![p] = Reply(procs[p], 200, "", jwt)]
    /\ UNCHANGED <<users, oauthAccounts, oauthStates, passwordResets, now,
                   consumeLog, revokedByReset>>

\* auth.go Register on a store whose insert fails: db.Create(&session)
\* returns an error that the handler does not read, no row is written and
\* the handler sets the cookie, starts the welcome mail and answers 200 with
\* the token it signed
RegisterSessionFails(p, delivered) ==
    /\ procs[p].op = "Register" /\ procs[p].pc = "session"
    /\ CanMint
    /\ LET jwt == GetSignedKey(procs[p].user.ID)
           token == nextID.token
       IN /\ nextID' = [nextID EXCEPT !.jti = @ + 1, !.token = @ + 1]
          /\ cookies' = cookies \cup {token}
          /\ issued' = issued \cup {jwt}
          /\ mailbox' = mailbox \cup
                          {NewMail("welcome", procs[p].user.Email, 0, delivered)}
          /\ procs' = [procs EXCEPT ![p] = Reply(procs[p], 200, "", jwt)]
    /\ UNCHANGED <<users, oauthAccounts, sessions, oauthStates, passwordResets, now,
                   consumeLog, revokedByReset>>

\* ------------------------------------------------------------------ Login
\* auth.go Login, up to ComparePassword
Login(p, email, password) ==
    /\ Free(p)
    /\ CanMint
    /\ LET user == First({u \in users : u.Email = email}, NoUser)
           start == [Idle EXCEPT !.op = "Login", !.email = email,
                                 !.password = password]
       IN procs' = [procs EXCEPT ![p] =
            IF user.ID = 0 THEN Reply(start, 404, "User not found", NoJWT)
            ELSE IF ~ComparePassword(password, user.Password)
            THEN Reply(start, 401, "Invalid credentials", NoJWT)
            ELSE [start EXCEPT !.pc = "session", !.user = user]]
    /\ UNCHANGED <<users, oauthAccounts, sessions, oauthStates, passwordResets, now,
                   nextID, cookies, issued, mailbox, consumeLog, revokedByReset>>

\* auth.go Login, from GetSignedKey to the response
LoginSession(p) ==
    /\ procs[p].op = "Login" /\ procs[p].pc = "session"
    /\ LET jwt == GetSignedKey(procs[p].user.ID)
           token == nextID.token
       IN /\ sessions' = sessions \cup {NewSession(procs[p].user.ID, jwt, token)}
          /\ nextID' = [nextID EXCEPT !.session = @ + 1, !.jti = @ + 1, !.token = @ + 1]
          /\ cookies' = cookies \cup {token}
          /\ issued' = issued \cup {jwt}
          /\ procs' = [procs EXCEPT ![p] = Reply(procs[p], 200, "", jwt)]
    /\ UNCHANGED <<users, oauthAccounts, oauthStates, passwordResets, now, mailbox,
                   consumeLog, revokedByReset>>

\* auth.go Login on a store whose insert fails: db.Create(&session) returns
\* an error that the handler does not read, no row is written and the
\* handler sets the cookie and answers 200 with the token it signed
LoginSessionFails(p) ==
    /\ procs[p].op = "Login" /\ procs[p].pc = "session"
    /\ CanMint
    /\ LET jwt == GetSignedKey(procs[p].user.ID)
           token == nextID.token
       IN /\ nextID' = [nextID EXCEPT !.jti = @ + 1, !.token = @ + 1]
          /\ cookies' = cookies \cup {token}
          /\ issued' = issued \cup {jwt}
          /\ procs' = [procs EXCEPT ![p] = Reply(procs[p], 200, "", jwt)]
    /\ UNCHANGED <<users, oauthAccounts, sessions, oauthStates, passwordResets, now,
                   mailbox, consumeLog, revokedByReset>>

\* ----------------------------------------------------------- RefreshToken
\* the session a refresh token locates: the row holding its digest
SessionOf(refreshToken) ==
    First({s \in sessions : s.RefreshToken = HashTokenSHA256(refreshToken)}, NoSession)

\* the expiry test with the comparison turned around
ExpiredAfter(session) == session.ExpiresAt > now

\* session.ExpiresAt.Before(time.Now())
Expired(session) == session.ExpiresAt < now

\* auth.go RefreshToken, up to the expiry test: look the session up by the
\* digest of the cookie, refuse a revoked one
RefreshToken(p, refreshToken) ==
    /\ Free(p)
    /\ LET session == SessionOf(refreshToken)
           start == [Idle EXCEPT !.op = "RefreshToken", !.refreshToken = refreshToken]
       IN procs' = [procs EXCEPT ![p] =
            IF session.ID = 0 THEN Reply(start, 401, "NotFound", NoJWT)
            ELSE IF session.Revoked THEN Reply(start, 401, "Revoked", NoJWT)
            ELSE IF Expired(session)
            THEN [start EXCEPT !.pc = "expire", !.session = session]
            ELSE [start EXCEPT !.pc = "save", !.session = session]]
    /\ UNCHANGED <<users, oauthAccounts, sessions, oauthStates, passwordResets, now,
                   nextID, cookies, issued, mailbox, consumeLog, revokedByReset>>

\* the expiry path without its assignment
expireSessionUntouched(session) == session

\* auth.go RefreshToken: session.Revoked = true on the expiry path
expireSession(session) == [session EXCEPT !.Revoked = TRUE]

\* auth.go RefreshToken: session.Revoked = true; db.Save(&session)
RefreshExpire(p) ==
    /\ procs[p].op = "RefreshToken" /\ procs[p].pc = "expire"
    /\ sessions' = Save(sessions, expireSession(procs[p].session))
    /\ procs' = [procs EXCEPT ![p] = Reply(procs[p], 401, "Expired", NoJWT)]
    /\ UNCHANGED <<users, oauthAccounts, oauthStates, passwordResets, now, nextID,
                   cookies, issued, mailbox, consumeLog, revokedByReset>>

\* a rotation that leaves the identifier of the session as it was
rotateKeeps(session, jti) == session

\* auth.go RefreshToken: session.JTI = jti
rotate(session, jti) == [session EXCEPT !.JTI = jti]

\* auth.go RefreshToken: GetSignedKey; session.JTI = jti; db.Save(&session)
RefreshSave(p) ==
    /\ procs[p].op = "RefreshToken" /\ procs[p].pc = "save"
    /\ nextID.jti <= MaxJTI
    /\ LET jwt == GetSignedKey(procs[p].session.UserID)
       IN /\ sessions' = Save(sessions, rotate(procs[p].session, jwt.jti))
          /\ nextID' = [nextID EXCEPT !.jti = @ + 1]
          /\ issued' = issued \cup {jwt}
          /\ procs' = [procs EXCEPT ![p] = Reply(procs[p], 200, "", jwt)]
    /\ UNCHANGED <<users, oauthAccounts, oauthStates, passwordResets, now, cookies,
                   mailbox, consumeLog, revokedByReset>>

\* auth.go RefreshToken on a store whose write fails: db.Save(&session)
\* returns an error that the handler does not read, the row stays as it was
\* and the handler answers 200 with the token it signed
RefreshSaveFails(p) ==
    /\ procs[p].op = "RefreshToken" /\ procs[p].pc = "save"
    /\ nextID.jti <= MaxJTI
    /\ LET jwt == GetSignedKey(procs[p].session.UserID)
       IN /\ nextID' = [nextID EXCEPT !.jti = @ + 1]
          /\ issued' = issued \cup {jwt}
          /\ procs' = [procs EXCEPT ![p] = Reply(procs[p], 200, "", jwt)]
    /\ UNCHANGED <<users, oauthAccounts, sessions, oauthStates, passwordResets, now,
                   cookies, mailbox, consumeLog, revokedByReset>>

\* ------------------------------------------------------------ RevokeToken
\* auth.go RevokeToken: look the session up by the digest of the cookie
RevokeToken(p, refreshToken) ==
    /\ Free(p)
    /\ LET session == SessionOf(refreshToken)
           \* history: the session was revoked already when the lookup ran
           start == [Idle EXCEPT !.op = "RevokeToken", !.refreshToken = refreshToken,
                                 !.prior = session.Revoked]
       IN procs' = [procs EXCEPT ![p] =
            IF session.ID = 0 THEN Reply(start, 404, "NotFound", NoJWT)
            ELSE [start EXCEPT !.pc = "save", !.session = session]]
    /\ UNCHANGED <<users, oauthAccounts, sessions, oauthStates, passwordResets, now,
                   nextID, cookies, issued, mailbox, consumeLog, revokedByReset>>

\* the assignment as a toggle of the flag
revokeSessionToggle(session) == [session EXCEPT !.Revoked = ~@]

\* auth.go RevokeToken: session.Revoked = true
revokeSession(session) == [session EXCEPT !.Revoked = TRUE]

\* auth.go RevokeToken: session.Revoked = true; db.Save(&session)
RevokeSave(p) ==
    /\ procs[p].op = "RevokeToken" /\ procs[p].pc = "save"
    /\ sessions' = Save(sessions, revokeSession(procs[p].session))
    /\ procs' = [procs EXCEPT ![p] = Reply(procs[p], 200, "revoked", NoJWT)]
    /\ UNCHANGED <<users, oauthAccounts, oauthStates, passwordResets, now, nextID,
                   cookies, issued, mailbox, consumeLog, revokedByReset>>

\* --------------------------------------------------- RequestPasswordReset
\* password_reset.go RequestPasswordReset: does a user with the email exist
RequestPasswordReset(p, email) ==
    /\ Free(p)
    /\ nextID.reset <= MaxResets
    /\ LET user == First({u \in users : u.Email = email}, NoUser)
           start == [Idle EXCEPT !.op = "RequestPasswordReset", !.email = email]
       IN procs' = [procs EXCEPT ![p] = [start EXCEPT !.pc = "recent", !.user = user]]
    /\ UNCHANGED <<users, oauthAccounts, sessions, oauthStates, passwordResets, now,
                   nextID, cookies, issued, mailbox, consumeLog, revokedByReset>>

\* the rate-limit lookup without its test of the used flag
recentResetExistsUsedOrNot(email) ==
    \E r \in passwordResets : r.Email = email /\ r.CreatedAt > now - RateLimitWindow

\* password_reset.go RequestPasswordReset: the lookup
\* "email = ? AND created_at > ? AND used = false" over the last 15 minutes
recentResetExists(email) ==
    \E r \in passwordResets : /\ r.Email = email
                              /\ r.CreatedAt > now - RateLimitWindow
                              /\ ~r.Used

\* password_reset.go RequestPasswordReset: the rate limit; without a user the
\* handler answers here
RequestRecent(p) ==
    /\ procs[p].op = "RequestPasswordReset" /\ procs[p].pc = "recent"
    /\ LET mine == {r \in passwordResets : r.Email = procs[p].email}
           \* history: the email had grants, every one of them used or
           \* expired, when this lookup ran
           q == [procs[p] EXCEPT !.prior =
                    /\ mine # {}
                    /\ \A r \in mine : r.Used \/ r.ExpiresAt <= now]
       IN procs' = [procs EXCEPT ![p] =
            IF recentResetExists(q.email) THEN Reply(q, 429, "RateLimited", NoJWT)
            ELSE IF q.user.ID = 0 THEN Reply(q, 200, "", NoJWT)
            ELSE [q EXCEPT !.pc = "markused"]]
    /\ UNCHANGED <<users, oauthAccounts, sessions, oauthStates, passwordResets, now,
                   nextID, cookies, issued, mailbox, consumeLog, revokedByReset>>

\* password_reset.go RequestPasswordReset: mark the unused grants of the
\* email used
RequestMarkUsed(p) ==
    /\ procs[p].op = "RequestPasswordReset" /\ procs[p].pc = "markused"
    /\ passwordResets' = {IF r.Email = procs[p].email /\ ~r.Used
                          THEN [r EXCEPT !.Used = TRUE] ELSE r : r \in passwordResets}
    /\ procs' = [procs EXCEPT ![p].pc = "create"]
    /\ UNCHANGED <<users, oauthAccounts, sessions, oauthStates, now, nextID, cookies,
                   issued, mailbox, consumeLog, revokedByReset>>

\* password_reset.go RequestPasswordReset: create the grant and hand the
\* cleartext token to the mail goroutine
RequestCreate(p, delivered) ==
    /\ procs[p].op = "RequestPasswordReset" /\ procs[p].pc = "create"
    /\ LET token == nextID.reset
           passwordReset == [ID |-> nextID.reset, Email |-> procs[p].email,
                             Token |-> HashTokenSHA256(token), Used |-> FALSE,
                             CreatedAt |-> now, ExpiresAt |-> now + ResetTTL]
       IN /\ passwordResets' = passwordResets \cup {passwordReset}
          /\ mailbox' = mailbox \cup
                          {NewMail("reset", procs[p].user.Email, token, delivered)}
    /\ nextID' = [nextID EXCEPT !.reset = @ + 1]
    /\ procs' = [procs EXCEPT ![p] = Reply(procs[p], 200, "", NoJWT)]
    /\ UNCHANGED <<users, oauthAccounts, sessions, oauthStates, now, cookies, issued,
                   consumeLog, revokedByReset>>

\* --------------------------------------------------- ConfirmPasswordReset
\* the lookup without its test of the used flag
FindPasswordResetUsedOrNot(token) ==
    {r \in passwordResets : r.Token = HashTokenSHA256(token) /\ r.ExpiresAt > now}

\* password_reset.go ConfirmPasswordReset: the rows selected by
\* "token = ? AND used = false AND expires_at > ?"
FindPasswordReset(token) ==
    {r \in passwordResets : /\ r.Token = HashTokenSHA256(token)
                             /\ ~r.Used
                             /\ r.ExpiresAt > now}

\* password_reset.go ConfirmPasswordReset: find the unused, unexpired grant
\* holding the digest of the token
ConfirmPasswordReset(p, token, password) ==
    /\ Free(p)
    /\ LET passwordReset == First(FindPasswordReset(token), NoPasswordReset)
           start == [Idle EXCEPT !.op = "ConfirmPasswordReset", !.token = token,
                                 !.password = password]
       IN procs' = [procs EXCEPT ![p] =
            IF passwordReset.ID = 0
            THEN Reply(start, ErrorHandler(NewError(400)).code, "InvalidOrExpired",
                       NoJWT)
            ELSE [start EXCEPT !.pc = "user", !.passwordReset = passwordReset]]
    /\ UNCHANGED <<users, oauthAccounts, sessions, oauthStates, passwordResets, now,
                   nextID, cookies, issued, mailbox, consumeLog, revokedByReset>>

\* password_reset.go ConfirmPasswordReset: find the user of the grant
ConfirmUser(p) ==
    /\ procs[p].op = "ConfirmPasswordReset" /\ procs[p].pc = "user"
    /\ LET user == First({u \in users : u.Email = procs[p].passwordReset.Email}, NoUser)
       IN procs' = [procs EXCEPT ![p] =
            IF user.ID = 0
            THEN Reply(procs[p], ErrorHandler(NewError(404)).code, "User not found",
                       NoJWT)
            ELSE [procs[p] EXCEPT !.pc = "password", !.user = user]]
    /\ UNCHANGED <<users, oauthAccounts, sessions, oauthStates, passwordResets, now,
                   nextID, cookies, issued, mailbox, consumeLog, revokedByReset>>

\* password_reset.go ConfirmPasswordReset: update the password column
ConfirmPassword(p) ==
    /\ procs[p].op = "ConfirmPasswordReset" /\ procs[p].pc = "password"
    /\ users' = {IF u.ID = procs[p].user.ID
                 THEN [u EXCEPT !.Password = HashPassword(procs[p].password)] ELSE u
                 : u \in users}
    /\ procs' = [procs EXCEPT ![p].pc = "used"]
    /\ UNCHANGED <<oauthAccounts, sessions, oauthStates, passwordResets, now, nextID,
                   cookies, issued, mailbox, consumeLog, revokedByReset>>

\* password_reset.go ConfirmPasswordReset: mark the grant used
ConfirmUsed(p) ==
    /\ procs[p].op = "ConfirmPasswordReset" /\ procs[p].pc = "used"
    /\ passwordResets' = {IF r.ID = procs[p].passwordReset.ID
                          THEN [r EXCEPT !.Used = TRUE] ELSE r : r \in passwordResets}
    /\ procs' = [procs EXCEPT ![p].pc = "revoke"]
    /\ UNCHANGED <<users, oauthAccounts, sessions, oauthStates, now, nextID, cookies,
                   issued, mailbox, consumeLog, revokedByReset>>

\* password_reset.go ConfirmPasswordReset: revoke every session of the user
\* and answer 200
ConfirmRevoke(p) ==
    /\ procs[p].op = "ConfirmPasswordReset" /\ procs[p].pc = "revoke"
    /\ sessions' = {IF s.UserID = procs[p].user.ID
                    THEN [s EXCEPT !.Revoked = TRUE] ELSE s : s \in sessions}
    /\ revokedByReset' = revokedByReset \cup
                           {s.ID : s \in {r \in sessions : r.UserID = procs[p].user.ID}}
    /\ procs' = [procs EXCEPT ![p] = Reply(procs[p], 200, "reset", NoJWT)]
    /\ UNCHANGED <<users, oauthAccounts, oauthStates, passwordResets, now, nextID,
                   cookies, issued, mailbox, consumeLog>>

\* password_reset.go ConfirmPasswordReset: the statement the request is at
\* returns an error (the store is gone, the statement timed out); the
\* handler returns it wrapped by fmt.Errorf to the error handler, what it
\* wrote before stays
ConfirmFails(p) ==
    /\ procs[p].op = "ConfirmPasswordReset"
    /\ procs[p].pc \in {"password", "used", "revoke"}
    /\ LET r == ErrorHandler(Errorf)
       IN procs' = [procs EXCEPT ![p] = Reply(procs[p], r.code, r.action, NoJWT)]
    /\ UNCHANGED <<users, oauthAccounts, sessions, oauthStates, passwordResets, now,
                   nextID, cookies, issued, mailbox, consumeLog, revokedByReset>>

\* ------------------------------------------------------------------- time
\* the clock advances by d minutes
Tick(d) ==
    /\ nextID.tick <= MaxTicks
    /\ now' = now + d
    /\ nextID' = [nextID EXCEPT !.tick = @ + 1]
    /\ UNCHANGED <<users, oauthAccounts, sessions, oauthStates, passwordResets, procs,
                   cookies, issued, mailbox, consumeLog, revokedByReset>>

\* ---------------------------------------------------------- OAuthInitiate
\* oauth.go OAuthInitiate: store a fresh state row bound to the requester
OAuthInitiate(p, provider, ua, ip) ==
    /\ Free(p)
    /\ nextID.state <= MaxStates
    /\ LET oauthState == [ID |-> nextID.state, State |-> nextID.state,
                          Provider |-> provider, Nonce |-> nextID.state,
                          UserAgent |-> ua, IPAddress |-> ip,
                          ExpiresAt |-> now + OAuthStateTTL]
           start == [Idle EXCEPT !.op = "OAuthInitiate", !.provider = provider,
                                 !.ua = ua, !.ip = ip, !.state = nextID.state]
       IN /\ oauthStates' = oauthStates \cup {oauthState}
          /\ nextID' = [nextID EXCEPT !.state = @ + 1]
          /\ procs' = [procs EXCEPT ![p] = Reply(start, 200, "", NoJWT)]
    /\ UNCHANGED <<users, oauthAccounts, sessions, passwordResets, now, cookies,
                   issued, mailbox, consumeLog, revokedByReset>>

\* ---------------------------------------------------------- OAuthCallback
\* the state check of OAuthCallback has returned for this state value
Consumed(state) == consumeLog \cup {state}

\* the lookup without its provider column
FindOAuthStateAnyProvider(state, provider) ==
    {r \in oauthStates : r.State = state /\ r.ExpiresAt > now}

\* oauth.go OAuthCallback: the rows selected by
\* "state = ? AND provider = ? AND expires_at > ?"
FindOAuthState(state, provider) ==
    {r \in oauthStates : /\ r.State = state
                         /\ r.Provider = provider
                         /\ r.ExpiresAt > now}

\* oauth.go OAuthCallback, up to ValidateOAuthState: parameter checks, the
\* lookup of the state row and its validation
OAuthCallback(p, provider, state, qcode, ua, ip) ==
    /\ Free(p)
    /\ LET start == [Idle EXCEPT !.op = "OAuthCallback", !.provider = provider,
                                 !.state = state, !.qcode = qcode, !.ua = ua,
                                 !.ip = ip]
           found == FindOAuthState(state, provider)
           oauthState == First(found, NoOAuthState)
           \* history: was a state check of this value over before this one,
           \* did this one locate the row, and from another fingerprint
           called == [start EXCEPT !.prior = (state \in consumeLog)]
           located == [called EXCEPT !.found = TRUE,
                          !.mismatch = (oauthState.UserAgent # ua
                                        \/ oauthState.IPAddress # ip)]
       IN IF qcode = "" \/ state = 0
          THEN /\ procs' = [procs EXCEPT ![p] = Reply(start, 400, "missing", NoJWT)]
               /\ UNCHANGED consumeLog
          ELSE IF found = {}
          THEN /\ procs' = [procs EXCEPT ![p] =
                              Reply(called, 400, "InvalidOrExpired", NoJWT)]
               /\ consumeLog' = Consumed(state)
          ELSE IF ~ValidateOAuthState(state, oauthState.Nonce, ua, ip)
          THEN /\ procs' = [procs EXCEPT ![p] =
                              Reply(located, 400, "validation failed", NoJWT)]
               /\ consumeLog' = Consumed(state)
          ELSE /\ procs' = [procs EXCEPT ![p] =
                              [located EXCEPT !.pc = "delete",
                                              !.oauthState = oauthState]]
               /\ UNCHANGED consumeLog
    /\ UNCHANGED <<users, oauthAccounts, sessions, oauthStates, passwordResets, now,
                   nextID, cookies, issued, mailbox, revokedByReset>>

\* oauth.go OAuthCallback: db.Delete(&oauthState), by primary key
OAuthCallbackDelete(p) ==
    /\ procs[p].op = "OAuthCallback" /\ procs[p].pc = "delete"
    /\ oauthStates' = {r \in oauthStates : r.ID # procs[p].oauthState.ID}
    /\ consumeLog' = Consumed(procs[p].state)
    /\ procs' = [procs EXCEPT ![p].pc = "exchange"]
    /\ UNCHANGED <<users, oauthAccounts, sessions, passwordResets, now, nextID,
                   cookies, issued, mailbox, revokedByReset>>

\* oauth.go OAuthCallback: the code exchange or the profile fetch fails
OAuthCallbackExchangeFail(p, fetched) ==
    /\ procs[p].op = "OAuthCallback" /\ procs[p].pc = "exchange"
    /\ procs[p].qcode = "bad" \/ ~fetched
    /\ procs' = [procs EXCEPT ![p] = Reply(procs[p], 400, "provider failed", NoJWT)]
    /\ UNCHANGED <<users, oauthAccounts, sessions, oauthStates, passwordResets, now,
                   nextID, cookies, issued, mailbox, consumeLog, revokedByReset>>

\* the switch without its case for password accounts
linkRequiredNever(existingUser) == FALSE

\* oauth.go processOAuthLogin: case models.AccountTypeEmail of the switch on
\* the account that owns the email
linkRequired(existingUser) == existingUser.AccountType = AccountTypeEmail

\* oauth.go processOAuthLogin: the reads of the transaction, which pick the
\* branch (the provider returned the profile (providerID, email))
\* a lookup of the link that never finds one
FindLinkNever(user, provider) == {}

\* handleOAuthAccountLinking: the rows selected by
\* "user_id = ? AND provider = ?"
FindLink(user, provider) ==
    {a \in oauthAccounts : a.UserID = user.ID /\ a.Provider = provider}

processOAuthLogin(p, providerID, email) ==
    /\ procs[p].op = "OAuthCallback" /\ procs[p].pc = "exchange"
    /\ procs[p].qcode = "good"
    /\ LET provider == procs[p].provider
           existingOAuth == First({a \in oauthAccounts : /\ a.Provider = provider
                                                          /\ a.ProviderID = providerID},
                                  NoOAuthAccount)
           existingUser == First({u \in users : u.Email = email}, NoUser)
           owner == First({u \in users : u.ID = existingOAuth.UserID}, NoUser)
           existingLink == First(FindLink(existingUser, provider), NoOAuthAccount)
           username == ensureUniqueUsername(users, generateUsernameFromOAuth(email))
           q == [procs[p] EXCEPT !.providerID = providerID, !.email = email,
                                 !.ran = TRUE]
       IN procs' = [procs EXCEPT ![p] =
            IF existingOAuth.ID # 0
            THEN \* handleExistingOAuthLogin
                 IF owner.ID = 0
                 THEN Reply(q, 500, "error", NoJWT)
                 ELSE [q EXCEPT !.pc = "commit", !.branch = "existing",
                                !.oauthAccount = existingOAuth, !.user = owner]
            ELSE IF existingUser.ID = 0
            THEN \* handleNewOAuthUser
                 IF username[2] < 0
                 THEN Reply(q, 500, "error", NoJWT)
                 ELSE [q EXCEPT !.pc = "commit", !.branch = "new",
                                !.username = username]
            ELSE IF linkRequired(existingUser)
            THEN Reply(q, 409, "link_required", NoJWT)
            ELSE IF existingUser.AccountType \in {AccountTypeOAuth, AccountTypeHybrid}
            THEN \* handleOAuthAccountLinking
                 IF existingLink.ID # 0
                 THEN Reply(q, 409, "already linked", NoJWT)
                 ELSE [q EXCEPT !.pc = "commit", !.branch = "link",
                                !.user = existingUser]
            ELSE Reply(q, 500, "error", NoJWT)]
    /\ UNCHANGED <<users, oauthAccounts, sessions, oauthStates, passwordResets, now,
                   nextID, cookies, issued, mailbox, consumeLog, revokedByReset>>

\* an oauth_accounts row that is bound to no user
NewOAuthAccountUnbound(userID, provider, providerID, email) ==
    [ID |-> nextID.oauth, UserID |-> 0, Provider |-> provider,
     ProviderID |-> providerID, Email |-> email]

\* a new oauth_accounts row
NewOAuthAccount(userID, provider, providerID, email) ==
    [ID |-> nextID.oauth, UserID |-> userID, Provider |-> provider,
     ProviderID |-> providerID, Email |-> email]

\* an update of the identity that also unbinds it from its user
refreshOAuthAccountRebinds(oauthAccount, q) ==
    [oauthAccount EXCEPT !.Email = q.email, !.UserID = 0]

\* handleExistingOAuthLogin: tx.Model(oauthAccount).Updates(updates), the
\* columns email, name, avatar_url, access_token, refresh_token,
\* token_expiry and last_used_at; of these the model keeps email
refreshOAuthAccount(oauthAccount, q) ==
    [oauthAccount EXCEPT !.Email = q.email]

\* handleExistingOAuthLogin: refresh the identity row, create the session
handleExistingOAuthLogin(p) ==
    LET q == procs[p]
        jwt == GetSignedKey(q.user.ID)
    IN /\ q.branch = "existing"
       /\ CanMint
       /\ oauthAccounts' = {IF a.ID = q.oauthAccount.ID
                            THEN refreshOAuthAccount(a, q) ELSE a
                            : a \in oauthAccounts}
       /\ sessions' = sessions \cup {NewSession(q.user.ID, jwt, nextID.token)}
       /\ nextID' = [nextID EXCEPT !.session = @ + 1, !.jti = @ + 1, !.token = @ + 1]
       /\ issued' = issued \cup {jwt}
       /\ procs' = [procs EXCEPT ![p] = Reply(procs[p], 200, "login", jwt)]
       /\ UNCHANGED users

\* handleNewOAuthUser: create the oauth-only user, its identity, its session
handleNewOAuthUser(p) ==
    LET q == procs[p]
        user == [ID |-> nextID.user, Username |-> q.username, Email |-> q.email,
                 Password |-> EmptyString, AccountType |-> AccountTypeOAuth]
        jwt == GetSignedKey(user.ID)
    IN /\ q.branch = "new"
       /\ CanMint
       /\ IF \E u \in users : u.Username = user.Username \/ u.Email = user.Email
          THEN /\ procs' = [procs EXCEPT ![p] = Reply(procs[p], 400, "error", NoJWT)]
               /\ UNCHANGED <<users, oauthAccounts, sessions, nextID, issued>>
          ELSE /\ users' = users \cup {user}
               /\ oauthAccounts' = oauthAccounts \cup
                     {NewOAuthAccount(user.ID, q.provider, q.providerID, q.email)}
               /\ sessions' = sessions \cup {NewSession(user.ID, jwt, nextID.token)}
               /\ nextID' = [nextID EXCEPT !.user = @ + 1, !.oauth = @ + 1,
                                           !.session = @ + 1, !.jti = @ + 1,
                                           !.token = @ + 1]
               /\ issued' = issued \cup {jwt}
               /\ procs' = [procs EXCEPT ![p] = Reply(procs[p], 201, "register", jwt)]

\* the linking without its promotion
promoteNever(user) == user

\* handleOAuthAccountLinking: user.AccountType = models.AccountTypeHybrid for
\* an oauth-only user
promoteToHybrid(user) ==
    IF user.AccountType = AccountTypeOAuth
    THEN [user EXCEPT !.AccountType = AccountTypeHybrid]
    ELSE user

\* handleOAuthAccountLinking: add the identity, promote oauth to hybrid
handleOAuthAccountLinking(p) ==
    LET q == procs[p]
        jwt == GetSignedKey(q.user.ID)
        promoted == promoteToHybrid(q.user)
    IN /\ q.branch = "link"
       /\ CanMint
       /\ IF \E a \in oauthAccounts : a.UserID = q.user.ID /\ a.Provider = q.provider
          THEN /\ procs' = [procs EXCEPT ![p] = Reply(procs[p], 500, "error", NoJWT)]
               /\ UNCHANGED <<users, oauthAccounts, sessions, nextID, issued>>
          ELSE /\ oauthAccounts' = oauthAccounts \cup
                     {NewOAuthAccount(q.user.ID, q.provider, q.providerID, q.email)}
               /\ users' = IF q.user.AccountType = AccountTypeOAuth
                           THEN Save(users, promoted) ELSE users
               /\ sessions' = sessions \cup {NewSession(q.user.ID, jwt, nextID.token)}
               /\ nextID' = [nextID EXCEPT !.oauth = @ + 1, !.session = @ + 1,
                                           !.jti = @ + 1, !.token = @ + 1]
               /\ issued' = issued \cup {jwt}
               /\ procs' = [procs EXCEPT ![p] = Reply(procs[p], 200, "login", jwt)]

\* oauth.go processOAuthLogin: the writes of the branch and tx.Commit()
OAuthCommit(p) ==
    /\ procs[p].op = "OAuthCallback" /\ procs[p].pc = "commit"
    /\ \/ handleExistingOAuthLogin(p)
       \/ handleNewOAuthUser(p)
       \/ handleOAuthAccountLinking(p)
    /\ UNCHANGED <<oauthStates, passwordResets, now, cookies, mailbox, consumeLog,
                   revokedByReset>>

\* oauth.go processOAuthLogin with a store whose commit fails: every
\* statement of the branch succeeded, tx.Commit() returns an error that the
\* branch does not read, the writes are rolled back (the keys they drew are
\* spent) and the branch returns its success reply with the signed token
OAuthCommitFails(p) ==
    LET q == procs[p]
        userID == IF q.branch = "new" THEN nextID.user ELSE q.user.ID
        jwt == GetSignedKey(userID)
    IN /\ q.op = "OAuthCallback" /\ q.pc = "commit"
       /\ CanMint
       /\ q.branch = "new" =>
             \A u \in users : u.Username # q.username /\ u.Email # q.email
       /\ q.branch = "link" =>
             \A a \in oauthAccounts : ~(a.UserID = q.user.ID /\ a.Provider = q.provider)
       /\ nextID' = [nextID EXCEPT
                       !.user = IF q.branch = "new" THEN @ + 1 ELSE @,
                       !.oauth = IF q.branch = "existing" THEN @ ELSE @ + 1,
                       !.session = @ + 1, !.jti = @ + 1, !.token = @ + 1]
       /\ issued' = issued \cup {jwt}
       /\ procs' = [procs EXCEPT ![p] =
                      IF q.branch = "new" THEN Reply(q, 201, "register", jwt)
                      ELSE Reply(q, 200, "login", jwt)]
       /\ UNCHANGED <<users, oauthAccounts, sessions, oauthStates, passwordResets,
                      now, cookies, mailbox, consumeLog, revokedByReset>>

\* ------------------------------------------------------- protected routes
\* the gate without its test of the revoked flag
SuccessHandlerAnySession(bearer) ==
    First({s \in sessions : s.JTI = bearer.jti}, NoSession).ID # 0

\* main.go: jwtware checks signature and expiry, then SuccessHandler looks
\* the session up by jti and refuses a revoked one; TRUE iff c.Next() runs
SuccessHandler(bearer) ==
    LET session == First({s \in sessions : s.JTI = bearer.jti}, NoSession)
    IN session.ID # 0 /\ ~session.Revoked

\* a request to a protected route presenting a bearer token the service issued
Protected(p, route, bearer, provider) ==
    /\ Free(p)
    /\ bearer \in issued
    /\ bearer.exp >= now
    /\ LET start == [Idle EXCEPT !.op = route, !.bearer = bearer,
                                 !.provider = provider]
       IN procs' = [procs EXCEPT ![p] =
                      IF SuccessHandler(bearer)
                      THEN [start EXCEPT !.pc = "handler", !.ran = TRUE]
                      ELSE Reply(start, 401, "Unauthorized", NoJWT)]
    /\ UNCHANGED <<users, oauthAccounts, sessions, oauthStates, passwordResets, now,
                   nextID, cookies, issued, mailbox, consumeLog, revokedByReset>>

\* the business rule with the count compared to zero
onlyAuthMethodOffByOne(user, oauthCount) ==
    user.AccountType = AccountTypeOAuth /\ oauthCount < 1

\* user.go UnlinkOAuthAccount: the business rule, an oauth-only user with
\* oauthCount <= 1
onlyAuthMethod(user, oauthCount) ==
    user.AccountType = AccountTypeOAuth /\ oauthCount <= 1

\* user.go UnlinkOAuthAccount: the reads of the transaction and the
\* last-method rule
UnlinkOAuthAccount(p) ==
    /\ procs[p].op = "UnlinkOAuthAccount" /\ procs[p].pc = "handler"
    /\ LET sub == procs[p].bearer.sub
           user == First({u \in users : u.ID = sub}, NoUser)
           oauthAccount == First({a \in oauthAccounts :
                                    a.UserID = sub /\ a.Provider = procs[p].provider},
                                 NoOAuthAccount)
           oauthCount == Cardinality({a \in oauthAccounts : a.UserID = sub})
       IN procs' = [procs EXCEPT ![p] =
            IF user.ID = 0 THEN Reply(procs[p], 404, "User not found", NoJWT)
            ELSE IF oauthAccount.ID = 0 THEN Reply(procs[p], 404, "NotLinked", NoJWT)
            ELSE IF onlyAuthMethod(user, oauthCount)
            THEN Reply(procs[p], 400, "LastAuthMethod", NoJWT)
            ELSE [procs[p] EXCEPT !.pc = "commit", !.user = user,
                                  !.oauthAccount = oauthAccount]]
    /\ UNCHANGED <<users, oauthAccounts, sessions, oauthStates, passwordResets, now,
                   nextID, cookies, issued, mailbox, consumeLog, revokedByReset>>

\* user.go UnlinkOAuthAccount: delete the identity, demote hybrid, commit
UnlinkCommit(p) ==
    /\ procs[p].op = "UnlinkOAuthAccount" /\ procs[p].pc = "commit"
    /\ LET user == procs[p].user
           remaining == {a \in oauthAccounts : a.ID # procs[p].oauthAccount.ID}
           remainingOAuthCount == Cardinality({a \in remaining : a.UserID = user.ID})
       IN /\ oauthAccounts' = remaining
          /\ users' = IF /\ user.AccountType = AccountTypeHybrid
                         /\ remainingOAuthCount = 0
                         /\ user.Password # EmptyString
                      THEN Save(users, [user EXCEPT !.AccountType = AccountTypeEmail])
                      ELSE users
    /\ procs' = [procs EXCEPT ![p] = Reply(procs[p], 200, "unlinked", NoJWT)]
    /\ UNCHANGED <<sessions, oauthStates, passwordResets, now, nextID, cookies,
                   issued, mailbox, consumeLog, revokedByReset>>

\* me.go GetMe: load the user of the token
GetMe(p) ==
    /\ procs[p].op = "GetMe" /\ procs[p].pc = "handler"
    /\ procs' = [procs EXCEPT ![p] =
          IF \E u \in users : u.ID = procs[p].bearer.sub
          THEN Reply(procs[p], 200, "", NoJWT)
          ELSE Reply(procs[p], 404, "User not found", NoJWT)]
    /\ UNCHANGED <<users, oauthAccounts, sessions, oauthStates, passwordResets, now,
                   nextID, cookies, issued, mailbox, consumeLog, revokedByReset>>

\* ------------------------------------------------- the session-ledger runs
SessionNext ==
    \/ \E p \in Procs :
        \/ Register(p, <<"a", 0>>, "a@x.com", "pw1")
        \/ RegisterSession(p, TRUE)
        \/ \E pw \in Passwords : Login(p, "a@x.com", pw)
        \/ LoginSession(p)
        \/ \E t \in cookies \cup {BogusToken} : RefreshToken(p, t)
        \/ RefreshExpire(p)
        \/ RefreshSave(p)
        \/ \E t \in cookies \cup {BogusToken} : RevokeToken(p, t)
        \/ RevokeSave(p)
        \/ \E b \in issued : Protected(p, "GetMe", b, "")
        \/ GetMe(p)
    \/ \E d \in {SessionTTL, SessionTTL + 1} : Tick(d)

SpecSession == Init /\ [][SessionNext]_vars

\* ------------------------------------------------ the password-reset runs
\* (their clock never reaches a session's expiry, so RefreshExpire has no
\* step here)
ResetNext ==
    \/ \E p \in Procs :
        \/ Register(p, <<"a", 0>>, "a@x.com", "pw1")
        \/ RegisterSession(p, TRUE)
        \/ \E t \in cookies : RefreshToken(p, t)
        \/ RefreshSave(p)
        \/ \E t \in cookies : RevokeToken(p, t)
        \/ RevokeSave(p)
        \/ RequestPasswordReset(p, "a@x.com")
        \/ RequestRecent(p)
        \/ RequestMarkUsed(p)
        \/ RequestCreate(p, TRUE)
        \/ \E t \in Mailed : ConfirmPasswordReset(p, t, "pw2")
        \/ ConfirmUser(p)
        \/ ConfirmPassword(p)
        \/ ConfirmUsed(p)
        \/ ConfirmRevoke(p)
    \/ \E d \in {RateLimitWindow, ResetTTL} : Tick(d)

SpecReset == Init /\ [][ResetNext]_vars

\* ------------------------------------------------ the reset-grant runs
\* requests and confirmations of one registered and one unknown email
GrantNext ==
    \/ \E p \in Procs :
        \/ Register(p, <<"a", 0>>, "a@x.com", "pw1")
        \/ RegisterSession(p, TRUE)
        \/ \E e \in Emails : RequestPasswordReset(p, e)
        \/ RequestRecent(p)
        \/ RequestMarkUsed(p)
        \/ \E delivered \in BOOLEAN : RequestCreate(p, delivered)
        \/ \E t \in Mailed \cup {BogusToken} : ConfirmPasswordReset(p, t, "pw2")
        \/ ConfirmUser(p)
        \/ ConfirmPassword(p)
        \/ ConfirmUsed(p)
        \/ ConfirmRevoke(p)
    \/ \E d \in {RateLimitWindow, ResetTTL} : Tick(d)

SpecGrant == Init /\ [][GrantNext]_vars

\* ------------------------------------------------- the account-linking runs
LinkNext == \E p \in Procs :
    \/ \E un \in RegUsernames, pw \in {"pw1"} : Register(p, un, "a@x.com", pw)
    \/ RegisterSession(p, TRUE)
    \/ \E pr \in Providers : OAuthInitiate(p, pr, "ua1", "ip1")
    \/ \E r \in oauthStates : OAuthCallback(p, r.Provider, r.State, "good", "ua1", "ip1")
    \/ OAuthCallbackDelete(p)
    \/ OAuthCallbackExchangeFail(p, FALSE)
    \/ \E id \in ProviderIDs, e \in Emails : processOAuthLogin(p, id, e)
    \/ OAuthCommit(p)
    \/ \E b \in issued, pr \in Providers : Protected(p, "UnlinkOAuthAccount", b, pr)
    \/ UnlinkOAuthAccount(p)
    \/ UnlinkCommit(p)

SpecLink == Init /\ [][LinkNext]_vars

\* --------------------------------------------------- the state-guard runs
\* what a callback presents: <<provider, state, code, user agent>>
CallbackInputs ==
    {<<pr, st, "good", ua>> : pr \in Providers, st \in 1..MaxStates, ua \in UserAgents}
    \cup {<<OAuthProviderGoogle, 1, "bad", "ua1">>,
          <<OAuthProviderGoogle, BogusState, "good", "ua1">>,
          <<OAuthProviderGoogle, 0, "", "ua1">>}

StateNext ==
    \/ \E p \in Procs :
        \/ \E pr \in Providers : OAuthInitiate(p, pr, "ua1", "ip1")
        \/ \E in \in CallbackInputs : OAuthCallback(p, in[1], in[2], in[3], in[4], "ip1")
        \/ OAuthCallbackDelete(p)
        \/ \E fetched \in BOOLEAN : OAuthCallbackExchangeFail(p, fetched)
        \/ processOAuthLogin(p, "101", "a@x.com")
        \/ OAuthCommit(p)
    \/ Tick(OAuthStateTTL)

SpecState == Init /\ [][StateNext]_vars

\* ----------------------------------------- the runs on a store that fails
\* the callbacks of the account-linking runs, on a store whose commit may
\* fail
FaultNext == \E p \in Procs :
    \/ \E pr \in Providers : OAuthInitiate(p, pr, "ua1", "ip1")
    \/ \E r \in oauthStates : OAuthCallback(p, r.Provider, r.State, "good", "ua1", "ip1")
    \/ OAuthCallbackDelete(p)
    \/ \E e \in Emails : processOAuthLogin(p, "101", e)
    \/ OAuthCommit(p)
    \/ OAuthCommitFails(p)

SpecFault == Init /\ [][FaultNext]_vars

\* ------------------------------------------------- the refresh-token runs
\* the cleartexts GenerateRefreshToken has returned so far
Generated == 1..(nextID.token - 1)

\* every creator of sessions (Register, Login and the three branches of the
\* OAuth callback), and refresh and revoke requests presenting any cleartext
\* that was generated, handed out or not
TokenNext == \E p \in Procs :
    \/ Register(p, <<"a", 0>>, "a@x.com", "pw1")
    \/ RegisterSession(p, TRUE)
    \/ Login(p, "a@x.com", "pw1")
    \/ LoginSession(p)
    \/ \E pr \in Providers : OAuthInitiate(p, pr, "ua1", "ip1")
    \/ \E r \in oauthStates : OAuthCallback(p, r.Provider, r.State, "good", "ua1", "ip1")
    \/ OAuthCallbackDelete(p)
    \/ processOAuthLogin(p, "101", "b@x.com")
    \/ OAuthCommit(p)
    \/ \E t \in Generated : RefreshToken(p, t)
    \/ RefreshSave(p)
    \/ \E t \in Generated : RevokeToken(p, t)
    \/ RevokeSave(p)

SpecToken == Init /\ [][TokenNext]_vars

\* ------------------------------- the session runs on a store that fails
\* register, login and refresh, on a store whose write of a rotation may
\* fail
SaveFaultNext == \E p \in Procs :
    \/ Register(p, <<"a", 0>>, "a@x.com", "pw1")
    \/ RegisterSession(p, TRUE)
    \/ Login(p, "a@x.com", "pw1")
    \/ LoginSession(p)
    \/ \E t \in cookies : RefreshToken(p, t)
    \/ RefreshSave(p)
    \/ RefreshSaveFails(p)
    \/ \E b \in issued : Protected(p, "GetMe", b, "")
    \/ GetMe(p)

SpecSaveFault == Init /\ [][SaveFaultNext]_vars

\* ------------------------------------------- the reset with a failing store
\* the reset routes, with statements of the confirm that can fail
ConfirmFaultNext ==
    \E p \in Procs :
        \/ Register(p, <<"a", 0>>, "a@x.com", "pw1")
        \/ RegisterSession(p, TRUE)
        \/ RequestPasswordReset(p, "a@x.com")
        \/ RequestRecent(p)
        \/ RequestMarkUsed(p)
        \/ RequestCreate(p, TRUE)
        \/ \E t \in Mailed : ConfirmPasswordReset(p, t, "pw2")
        \/ ConfirmUser(p)
        \/ ConfirmPassword(p)
        \/ ConfirmUsed(p)
        \/ ConfirmRevoke(p)
        \/ ConfirmFails(p)

SpecConfirmFault == Init /\ [][ConfirmFaultNext]_vars

\* ------------------------------------- password login of OAuth accounts
\* an account made by an OAuth callback, the reset routes and the password
\* login
FederatedNext ==
    \E p \in Procs :
        \/ OAuthInitiate(p, OAuthProviderGoogle, "ua1", "ip1")
        \/ \E r \in oauthStates :
              OAuthCallback(p, r.Provider, r.State, "good", "ua1", "ip1")
        \/ OAuthCallbackDelete(p)
        \/ processOAuthLogin(p, "101", "a@x.com")
        \/ OAuthCommit(p)
        \/ RequestPasswordReset(p, "a@x.com")
        \/ RequestRecent(p)
        \/ RequestMarkUsed(p)
        \/ RequestCreate(p, TRUE)
        \/ \E t \in Mailed : ConfirmPasswordReset(p, t, "pw2")
        \/ ConfirmUser(p)
        \/ ConfirmPassword(p)
        \/ ConfirmUsed(p)
        \/ ConfirmRevoke(p)
        \/ \E e \in Emails, pw \in Passwords : Login(p, e, pw)
        \/ LoginSession(p)

SpecFederated == Init /\ [][FederatedNext]_vars

\* ------------------------------ the session creators on a failing store
\* Register, Login and the OAuth callback, with the insert of the session
\* or the commit of the transaction failing
SessionFaultNext ==
    \E p \in Procs :
        \/ Register(p, <<"a", 0>>, "a@x.com", "pw1")
        \/ RegisterSession(p, TRUE)
        \/ RegisterSessionFails(p, TRUE)
        \/ Login(p, "a@x.com", "pw1")
        \/ LoginSession(p)
        \/ LoginSessionFails(p)
        \/ OAuthInitiate(p, OAuthProviderGoogle, "ua1", "ip1")
        \/ \E r \in oauthStates :
              OAuthCallback(p, r.Provider, r.State, "good", "ua1", "ip1")
        \/ OAuthCallbackDelete(p)
        \/ processOAuthLogin(p, "101", "b@x.com")
        \/ OAuthCommit(p)
        \/ OAuthCommitFails(p)

SpecSessionFault == Init /\ [][SessionFaultNext]_vars

\* ------------------------------------------------- username generation
MaxTaken == 3

\* the users table with the names base, base_1 .. base_(k-1) taken, but for
\* the name of suffix gap
TakenUsers(base, k, gap) ==
    {[ID |-> i + 1, Username |-> <<base, i>>, Email |-> ToString(i),
      Password |-> HashPassword("pw1"), AccountType |-> AccountTypeEmail]
     : i \in (0..(k - 1)) \ {gap}}

\* the tables the generation is run on: up to MaxTaken names of a base
\* taken, with or without a gap, and the tables that take all the names up
\* to the ceiling but the last one, or all of them
UsernameTables ==
    {TakenUsers(base, k, gap) : base \in {"a", "bob"}, k \in 0..MaxTaken,
                                gap \in -1..(MaxTaken - 1)}
    \cup {TakenUsers("a", k, -1) :
            k \in (UsernameCeiling - 1)..UsernameCeiling}

UsernameInit ==
    /\ users \in UsernameTables
    /\ oauthAccounts = {}
    /\ sessions = {}
    /\ oauthStates = {}
    /\ passwordResets = {}
    /\ now = 0
    /\ nextID = [user |-> UsernameCeiling + 1, oauth |-> 1, session |-> 1, jti |-> 1,
                 token |-> 1, state |-> 1, reset |-> 1, tick |-> 1]
    /\ procs = [p \in Procs |-> Idle]
    /\ cookies = {}
    /\ issued = {}
    /\ mailbox = {}
    /\ consumeLog = {}
    /\ revokedByReset = {}

\* handleNewOAuthUser: username := generateUsernameFromOAuth(userInfo) and
\* the call of ensureUniqueUsername, up to its loop
GenerateUsername(p, email) ==
    /\ \A r \in Procs : Free(r)
    /\ procs' = [procs EXCEPT ![p] =
                   [Idle EXCEPT !.op = "generateUsername", !.pc = "count",
                                !.email = email, !.suffix = 1,
                                !.username = generateUsernameFromOAuth(email)]]
    /\ UNCHANGED <<users, oauthAccounts, sessions, oauthStates, passwordResets, now,
                   nextID, cookies, issued, mailbox, consumeLog, revokedByReset>>

\* ensureUniqueUsername: one turn of the loop, the count of the users that
\* have the candidate, then the return of the candidate, the next candidate,
\* or the error, which handleNewOAuthUser answers 500
EnsureUniqueStep(p) ==
    /\ procs[p].op = "generateUsername" /\ procs[p].pc = "count"
    /\ LET q == procs[p]
       IN procs' = [procs EXCEPT ![p] =
            IF \A u \in users : u.Username # q.username
            THEN [q EXCEPT !.pc = "done"]
            ELSE IF q.suffix + 1 > UsernameCeiling
            THEN [q EXCEPT !.pc = "done", !.code = 500, !.action = "error",
                           !.username = <<"", -1>>, !.suffix = q.suffix + 1]
            ELSE [q EXCEPT !.username = nextCandidate(q.username, q.suffix),
                           !.suffix = q.suffix + 1]]
    /\ UNCHANGED <<users, oauthAccounts, sessions, oauthStates, passwordResets, now,
                   nextID, cookies, issued, mailbox, consumeLog, revokedByReset>>

UsernameNext ==
    \E p \in Procs :
        \/ \E e \in ProfileEmails : GenerateUsername(p, e)
        \/ EnsureUniqueStep(p)

SpecUsername == UsernameInit /\ [][UsernameNext]_vars

\* the handler's goroutine is scheduled and the store answers its counts
SpecUsernameFair ==
    SpecUsername /\ \A p \in Procs : WF_vars(EnsureUniqueStep(p))

\* ---------------------------------------------------------- SMTP client
MaxRcpt == 2

\* utils.NewSMTPClient: the client built from the environment
NewSMTPClient(env) ==
    [host |-> IF env.SMTP_HOST = "" THEN "smtp.gmail.com" ELSE env.SMTP_HOST,
     port |-> IF env.SMTP_PORT = "" THEN "587" ELSE env.SMTP_PORT,
     email |-> env.SMTP_EMAIL,
     password |-> env.SMTP_PASSWORD,
     useTLS |-> (IF env.SMTP_PORT = "" THEN "587" ELSE env.SMTP_PORT) = "465"]

\* the steps of the SMTP conversation at which the network or the server
\* can fail a Send, in their order; "none" fails none of them
SMTPSteps == <<"dial", "client", "starttls", "auth", "mail", "rcpt", "data",
               "write", "close", "quit">>

\* the conversation of one Send with a server that fails at step fails: the
\* error of the first step that is taken and fails, nil ("") if none
Converse(s, fails) ==
    IF fails = "dial" THEN (IF s.useTLS THEN "tls dial" ELSE "dial smtp")
    ELSE IF fails = "client" THEN "smtp client"
    ELSE IF fails = "starttls" /\ ~s.useTLS THEN "starttls"
    ELSE IF fails = "auth" /\ s.email # "" /\ s.password # "" THEN "auth"
    ELSE IF fails = "mail" THEN "mail from"
    ELSE IF fails = "rcpt" THEN "rcpt"
    ELSE IF fails = "data" THEN "data"
    ELSE IF fails = "write" THEN "write message"
    ELSE IF fails = "close" THEN "close write"
    ELSE IF fails = "quit" THEN "quit"
    ELSE ""

\* a Send that does not test the sender before it dials
SendUnconfigured(s, to, fails) ==
    IF Len(to) = 0
    THEN [err |-> "no recipients provided", dialed |-> FALSE]
    ELSE [err |-> Converse(s, fails), dialed |-> TRUE]

\* SMTPClient.Send: the error it returns, and whether it dialed the server
Send(s, to, fails) ==
    IF Len(to) = 0
    THEN [err |-> "no recipients provided", dialed |-> FALSE]
    ELSE IF s.email = ""
    THEN [err |-> "sender email (SMTP_EMAIL) is not configured", dialed |-> FALSE]
    ELSE [err |-> Converse(s, fails), dialed |-> TRUE]

\* the environments and recipient lists of the calls
SMTPEnvs == [SMTP_HOST : {""}, SMTP_PORT : {"", "465", "587"},
             SMTP_EMAIL : {"", "noreply@x.com"}, SMTP_PASSWORD : {"", "secret"}]

RcptLists == UNION {[1..n -> Emails] : n \in 0..MaxRcpt}

SendCalls == [kind : {"call"}, env : SMTPEnvs, to : RcptLists, status : {"pending"},
              err : {""}, dialed : {FALSE}]

\* two calls of Send wait to be made
SendInit ==
    /\ users = {}
    /\ oauthAccounts = {}
    /\ sessions = {}
    /\ oauthStates = {}
    /\ passwordResets = {}
    /\ now = 0
    /\ nextID = [user |-> 1, oauth |-> 1, session |-> 1, jti |-> 1, token |-> 1,
                 state |-> 1, reset |-> 1, tick |-> 1]
    /\ procs = [p \in Procs |-> Idle]
    /\ cookies = {}
    /\ issued = {}
    /\ \E c1 \in SendCalls, c2 \in SendCalls : mailbox = {c1, c2}
    /\ consumeLog = {}
    /\ revokedByReset = {}

\* client := NewSMTPClient(); err := client.Send(ctx, to, subject, body)
SendCall(m, fails) ==
    /\ m \in mailbox /\ m.kind = "call" /\ m.status = "pending"
    /\ LET r == Send(NewSMTPClient(m.env), m.to, fails)
       IN mailbox' = (mailbox \ {m}) \cup
                         {[m EXCEPT !.status = "returned", !.err = r.err,
                                    !.dialed = r.dialed]}
    /\ UNCHANGED <<users, oauthAccounts, sessions, oauthStates, passwordResets, now,
                   nextID, procs, cookies, issued, consumeLog, revokedByReset>>

SendNext ==
    \E m \in mailbox, fails \in {SMTPSteps[i] : i \in DOMAIN SMTPSteps} \cup {"none"} :
        SendCall(m, fails)

SpecSend == SendInit /\ [][SendNext]_vars

\* ------------------------------------------------------- the mail runs
\* the two handlers that send mail, and the goroutines of their mails
MailOutcomes == {"sent", "failed", "timeout"}

MailNext ==
    \/ \E p \in Procs :
        \/ Register(p, <<"a", 0>>, "a@x.com", "pw1")
        \/ RegisterSession(p, FALSE)
        \/ \E e \in Emails : RequestPasswordReset(p, e)
        \/ RequestRecent(p)
        \/ RequestMarkUsed(p)
        \/ RequestCreate(p, FALSE)
        \/ \E t \in Mailed : ConfirmPasswordReset(p, t, "pw2")
        \/ ConfirmUser(p)
        \/ ConfirmPassword(p)
        \/ ConfirmUsed(p)
        \/ ConfirmRevoke(p)
    \/ \E m \in mailbox, outcome \in MailOutcomes : MailDispatch(m, outcome)

SpecMail == Init /\ [][MailNext]_vars

\* ------------------------------------------------------ the whole service
\* every route of the service, interleaved
Next == SessionNext \/ ResetNext \/ GrantNext \/ LinkNext \/ StateNext \/ FaultNext
           \/ TokenNext \/ SaveFaultNext \/ MailNext \/ SendNext
           \/ ConfirmFaultNext \/ UsernameNext \/ FederatedNext
           \/ SessionFaultNext

Spec == Init /\ [][Next]_vars

\* ================================================================= claims
Quiescent == \A p \in Procs : procs[p].pc = "done"

\* the live identities of a user
LinksOf(u) == {a \in oauthAccounts : a.UserID = u.ID}

\* C1: whenever no request is in flight, every account's kind agrees with
\* what it holds: oauth has no password digest and at least one identity,
\* hybrid has a digest and at least one identity, email has a digest and no
\* identity.
C1_AccountKindInvariant ==
    Quiescent =>
        \A u \in users :
            /\ u.AccountType = AccountTypeOAuth =>
                  u.Password = EmptyString /\ Cardinality(LinksOf(u)) >= 1
            /\ u.AccountType = AccountTypeHybrid =>
                  u.Password # EmptyString /\ Cardinality(LinksOf(u)) >= 1
            /\ u.AccountType = AccountTypeEmail =>
                  u.Password # EmptyString /\ Cardinality(LinksOf(u)) = 0

\* C2: whenever no request is in flight, every account still has a way to
\* authenticate: a password digest or at least one live identity.
C2_KeepsAnAuthMethod ==
    Quiescent =>
        \A u \in users : u.Password # EmptyString \/ LinksOf(u) # {}

\* C3: a revoked session stays revoked: no step turns the revoked flag of a
\* session from true back to false.
C3_RevocationPermanent ==
    [][\A s \in sessions : s.Revoked =>
          \E t \in sessions' : t.ID = s.ID /\ t.Revoked]_vars

\* p starts the handler op in this step
Starts(p, op) ==
    procs[p].pc = "done" /\ procs'[p] # procs[p] /\ procs'[p].op = op

\* the session of the presented refresh token is missing, revoked or past
\* its expires-at
DeadToken(refreshToken) ==
    LET rows == {s \in sessions : s.RefreshToken = HashTokenSHA256(refreshToken)}
    IN \A s \in rows : s.Revoked \/ s.ExpiresAt < now

\* C4: a RefreshToken request presenting a token whose session is missing,
\* revoked or past its expires-at is answered 401 at once or takes the expiry
\* path, and the expiry path ends in 401; neither returns a bearer token.
C4_RotateRefusesDeadSession ==
    [][\A p \in Procs :
          /\ Starts(p, "RefreshToken") /\ DeadToken(procs'[p].refreshToken) =>
                /\ procs'[p].jwt = NoJWT
                /\ \/ procs'[p].pc = "done" /\ procs'[p].code = 401
                   \/ procs'[p].pc = "expire"
          /\ ( /\ procs[p].op = "RefreshToken" /\ procs[p].pc = "expire"
               /\ procs'[p] # procs[p] ) =>
                procs'[p].pc = "done" /\ procs'[p].code = 401 /\ procs'[p].jwt = NoJWT
      ]_vars

\* C4 witness: one refresh was refused for a revoked session and another
\* for an expired one.
C4_Witness ==
    \E p, q \in Procs :
        /\ procs[p].op = "RefreshToken" /\ procs[p].pc = "done"
        /\ procs[p].action = "Revoked" /\ procs[p].code = 401
        /\ SessionOf(procs[p].refreshToken).Revoked
        /\ procs[q].op = "RefreshToken" /\ procs[q].pc = "done"
        /\ procs[q].action = "Expired" /\ procs[q].code = 401
        /\ SessionOf(procs[q].refreshToken).ExpiresAt < now

\* C5: every session that a successful password reset revoked is revoked in
\* every later state.
C5_ResetRevokesForGood ==
    \A s \in sessions : s.ID \in revokedByReset => s.Revoked

\* C6: the gate lets a request through to its protected handler only if, in
\* the state the gate reads, a session holding the token's jti exists and is
\* not revoked.
C6_GateRejectsRevoked ==
    [][\A p \in Procs :
          procs[p].pc = "done" /\ procs'[p].pc = "handler" =>
              \E s \in sessions : s.JTI = procs'[p].bearer.jti /\ ~s.Revoked]_vars

\* C6 witness: a request whose unexpired bearer token belongs to a revoked
\* session was answered 401 and its handler did not run.
C6_Witness ==
    \E p \in Procs :
        /\ procs[p].op = "GetMe" /\ procs[p].pc = "done"
        /\ procs[p].code = 401 /\ ~procs[p].ran
        /\ procs[p].bearer.exp >= now
        /\ \E s \in sessions : s.JTI = procs[p].bearer.jti /\ s.Revoked

\* C7: a callback whose state value had already been through a state check
\* fails that check with InvalidOrExpired.
C7_StateSingleUse ==
    \A p \in Procs :
        procs[p].op = "OAuthCallback" /\ procs[p].prior =>
            procs[p].pc = "done" /\ procs[p].action = "InvalidOrExpired"

\* the callback p located its state row and got past the state check
Passed(p) ==
    /\ procs[p].op = "OAuthCallback" /\ procs[p].found
    /\ procs[p].pc \in {"exchange", "commit", "done"}
    /\ procs[p].action # "validation failed"

\* C8: no two callbacks get past the state check with the same state value.
C8_ConsumeAtomic ==
    \A p, q \in Procs :
        p # q /\ Passed(p) /\ Passed(q) => procs[p].state # procs[q].state

\* C9: a callback coming from another fingerprint than the one stored with
\* its state row never reaches the linking engine, and ends with
\* FingerprintMismatch.
C9_OriginBinding ==
    \A p \in Procs :
        procs[p].op = "OAuthCallback" /\ procs[p].mismatch =>
            /\ ~procs[p].ran
            /\ procs[p].pc = "done" => procs[p].action = "FingerprintMismatch"

\* C10: once a callback that located its state row is past its delete
\* statement, whatever its outcome, no row with that state value exists.
C10_LocatedRowIsGone ==
    \A p \in Procs :
        procs[p].op = "OAuthCallback" /\ procs[p].found /\ procs[p].pc # "delete" =>
            \A r \in oauthStates : r.State # procs[p].state

\* C10 witness: a callback located its row, then failed at the provider, and
\* the row is gone.
C10_Witness ==
    \E p \in Procs :
        /\ procs[p].op = "OAuthCallback" /\ procs[p].found /\ procs[p].pc = "done"
        /\ procs[p].action = "provider failed"
        /\ \A r \in oauthStates : r.State # procs[p].state

\* C11: a callback gets past the state lookup only if an unexpired row with
\* its state value and its provider exists; any other callback is answered
\* 400 at once (InvalidOrExpired, or the reply to an absent code or state
\* parameter) without touching an account, an identity or a session, and
\* the linking engine runs only for callbacks that located their row.
C11_GuardIsPrecondition ==
    [][\A p \in Procs :
          /\ Starts(p, "OAuthCallback") /\ procs'[p].found =>
                /\ procs'[p].pc = "delete"
                /\ \E r \in oauthStates : /\ r.State = procs'[p].state
                                          /\ r.Provider = procs'[p].provider
                                          /\ r.ExpiresAt > now
          /\ Starts(p, "OAuthCallback") /\ ~procs'[p].found =>
                /\ procs'[p].pc = "done" /\ procs'[p].code = 400
                /\ procs'[p].action \in {"InvalidOrExpired", "missing"}
                /\ procs'[p].state # 0 => procs'[p].action = "InvalidOrExpired"
                /\ UNCHANGED <<users, oauthAccounts, sessions>>
          /\ procs'[p].op = "OAuthCallback" /\ procs'[p].ran => procs'[p].found
      ]_vars

\* C11 witness: a callback presenting the state value of a stored row, for
\* the other provider or after the row expired, was refused with
\* InvalidOrExpired and the engine did not run.
C11_Witness ==
    \E p, q \in Procs :
        /\ procs[p].op = "OAuthCallback" /\ procs[p].pc = "done"
        /\ procs[p].action = "InvalidOrExpired" /\ ~procs[p].ran
        /\ \E r \in oauthStates : r.State = procs[p].state /\ r.ExpiresAt > now
        /\ procs[q].op = "OAuthCallback" /\ procs[q].pc = "done"
        /\ procs[q].action = "InvalidOrExpired" /\ ~procs[q].ran
        /\ \E r \in oauthStates : r.State = procs[q].state /\ r.ExpiresAt <= now

\* p's callback enters the linking engine in this step
EngineRuns(p) ==
    /\ procs[p].op = "OAuthCallback" /\ procs[p].pc = "exchange"
    /\ ~procs[p].ran /\ procs'[p].ran

\* no live identity exists for the pair
NoIdentity(provider, providerID) ==
    \A a \in oauthAccounts : ~(a.Provider = provider /\ a.ProviderID = providerID)

\* C12: when the engine runs for a pair (provider, provider id) that has no
\* identity and the profile's email belongs to a password account, the
\* result is link_required with code 409 and no user, identity or session
\* row changes.
C12_NoSilentAutoLink ==
    [][\A p \in Procs :
          ( /\ EngineRuns(p)
            /\ NoIdentity(procs'[p].provider, procs'[p].providerID)
            /\ \E u \in users : /\ u.Email = procs'[p].email
                                /\ u.AccountType = AccountTypeEmail ) =>
              /\ procs'[p].pc = "done" /\ procs'[p].action = "link_required"
              /\ procs'[p].code = 409 /\ procs'[p].jwt = NoJWT
              /\ UNCHANGED <<users, oauthAccounts, sessions>>
      ]_vars

\* C12 witness: a callback was answered link_required, and the password
\* account that owns its email has no identity.
C12_Witness ==
    \E p \in Procs :
        /\ procs[p].op = "OAuthCallback" /\ procs[p].pc = "done"
        /\ procs[p].action = "link_required" /\ procs[p].code = 409
        /\ \E u \in users : /\ u.Email = procs[p].email
                            /\ u.AccountType = AccountTypeEmail
                            /\ LinksOf(u) = {}

\* p's callback commits its branch in this step
Commits(p, branch) ==
    /\ procs[p].op = "OAuthCallback" /\ procs[p].pc = "commit"
    /\ procs[p].branch = branch /\ procs'[p].pc = "done"

\* C13: when the engine runs for a pair with no identity and an email with no
\* account it takes the new-user branch, and that branch, unless the email
\* or the username was taken meanwhile, answers register and adds exactly
\* one user (kind oauth, no password), one identity bound to it and one
\* session of it.
C13_RegisterCreatesOneOfEach ==
    [][\A p \in Procs :
          /\ ( /\ EngineRuns(p)
               /\ NoIdentity(procs'[p].provider, procs'[p].providerID)
               /\ \A u \in users : u.Email # procs'[p].email ) =>
                 procs'[p].pc = "commit" /\ procs'[p].branch = "new"
          /\ ( /\ Commits(p, "new")
               /\ \A u \in users : /\ u.Email # procs[p].email
                                   /\ u.Username # procs[p].username ) =>
                 /\ procs'[p].action = "register" /\ procs'[p].code = 201
                 /\ procs'[p].jwt # NoJWT
                 /\ \E u \in users' \ users :
                       /\ users' = users \cup {u}
                       /\ u.AccountType = AccountTypeOAuth
                       /\ u.Password = EmptyString
                       /\ u.Email = procs[p].email
                       /\ \E a \in oauthAccounts' \ oauthAccounts :
                             /\ oauthAccounts' = oauthAccounts \cup {a}
                             /\ a.UserID = u.ID
                             /\ a.Provider = procs[p].provider
                             /\ a.ProviderID = procs[p].providerID
                       /\ \E t \in sessions' \ sessions :
                             /\ sessions' = sessions \cup {t}
                             /\ t.UserID = u.ID /\ ~t.Revoked
                             /\ t.JTI = procs'[p].jwt.jti
      ]_vars

\* C13 witness: a callback answered register, and the account of its email
\* is an oauth account without password holding the callback's identity and
\* the session of the returned token.
C13_Witness ==
    \E p \in Procs :
        /\ procs[p].op = "OAuthCallback" /\ procs[p].pc = "done"
        /\ procs[p].action = "register"
        /\ \E u \in users :
              /\ u.Email = procs[p].email /\ u.AccountType = AccountTypeOAuth
              /\ u.Password = EmptyString
              /\ \E a \in LinksOf(u) : /\ a.Provider = procs[p].provider
                                       /\ a.ProviderID = procs[p].providerID
              /\ \E t \in sessions : t.UserID = u.ID /\ t.JTI = procs[p].jwt.jti

\* the account u is an oauth account whose only identity is of another
\* provider than the given one
FederatedWithOther(u, provider) ==
    /\ u.AccountType = AccountTypeOAuth
    /\ Cardinality(LinksOf(u)) = 1
    /\ \A a \in LinksOf(u) : a.Provider # provider

\* C14: when the engine runs for a pair with no identity and the email of an
\* oauth account whose one identity is of another provider, it takes the
\* linking branch; that branch, finding the account still so, answers login,
\* makes the account hybrid and leaves it with exactly two identities, the
\* old one and the callback's.
C14_LinkPromotesToHybrid ==
    [][\A p \in Procs :
          /\ ( /\ EngineRuns(p)
               /\ NoIdentity(procs'[p].provider, procs'[p].providerID)
               /\ \E u \in users : /\ u.Email = procs'[p].email
                                   /\ FederatedWithOther(u, procs'[p].provider) ) =>
                 procs'[p].pc = "commit" /\ procs'[p].branch = "link"
          /\ ( /\ Commits(p, "link")
               /\ \E u \in users : /\ u.ID = procs[p].user.ID
                                   /\ FederatedWithOther(u, procs[p].provider) ) =>
                 /\ procs'[p].action = "login" /\ procs'[p].code = 200
                 /\ procs'[p].jwt # NoJWT
                 /\ \E u \in users' :
                       /\ u.ID = procs[p].user.ID
                       /\ u.AccountType = AccountTypeHybrid
                       /\ LET links == {a \in oauthAccounts' : a.UserID = u.ID}
                          IN /\ Cardinality(links) = 2
                             /\ {a \in oauthAccounts : a.UserID = u.ID} \subseteq links
                             /\ \E a \in links :
                                   /\ a.Provider = procs[p].provider
                                   /\ a.ProviderID = procs[p].providerID
      ]_vars

\* C14 witness: a callback answered login for an email whose account is now
\* hybrid with two identities, one of them the callback's, newly created.
C14_Witness ==
    \E p \in Procs :
        /\ procs[p].op = "OAuthCallback" /\ procs[p].pc = "done"
        /\ procs[p].action = "login"
        /\ \E u \in users :
              /\ u.Email = procs[p].email /\ u.AccountType = AccountTypeHybrid
              /\ Cardinality(LinksOf(u)) = 2
              /\ \E a \in LinksOf(u) : /\ a.Provider = procs[p].provider
                                       /\ a.ProviderID = procs[p].providerID
                                       /\ a.ID = nextID.oauth - 1

\* C15: a callback (with a state value of its own) that found no identity
\* for its pair and comes to write after another callback created that
\* identity fails with a 409 conflict and writes nothing, so the pair never
\* has two accounts or two identities.
C15_SecondWriterConflicts ==
    [][\A p \in Procs :
          ( /\ procs[p].op = "OAuthCallback" /\ procs[p].pc = "commit"
            /\ procs[p].branch \in {"new", "link"}
            /\ \A q \in Procs : q # p => procs[q].state # procs[p].state
            /\ ~NoIdentity(procs[p].provider, procs[p].providerID)
            /\ procs'[p].pc = "done" ) =>
              /\ procs'[p].code = 409
              /\ UNCHANGED <<users, oauthAccounts, sessions>>
      ]_vars

\* C16: an unlink request of an oauth account whose only identity is the one
\* it names is answered 400 LastAuthMethod by the step that reads the
\* account, and no identity or user row changes.
C16_LastIdentityStays ==
    [][\A p \in Procs :
          ( /\ procs[p].op = "UnlinkOAuthAccount" /\ procs[p].pc = "handler"
            /\ procs'[p] # procs[p]
            /\ \E u \in users :
                  /\ u.ID = procs[p].bearer.sub
                  /\ u.AccountType = AccountTypeOAuth
                  /\ Cardinality(LinksOf(u)) = 1
                  /\ \A a \in LinksOf(u) : a.Provider = procs[p].provider ) =>
              /\ procs'[p].pc = "done" /\ procs'[p].code = 400
              /\ procs'[p].action = "LastAuthMethod"
              /\ UNCHANGED <<users, oauthAccounts>>
      ]_vars

\* C16 witness: an unlink was refused with LastAuthMethod and the oauth
\* account of its token still has its one identity.
C16_Witness ==
    \E p \in Procs :
        /\ procs[p].op = "UnlinkOAuthAccount" /\ procs[p].pc = "done"
        /\ procs[p].action = "LastAuthMethod"
        /\ \E u \in users : /\ u.ID = procs[p].bearer.sub
                            /\ u.AccountType = AccountTypeOAuth
                            /\ Cardinality(LinksOf(u)) = 1

\* C17: the step that ends the transaction of a callback either answers
\* login or register and leaves the session of the returned token and the
\* callback's identity, bound to the session's user, in the tables, or
\* answers an error and changes no user, identity or session row.
C17_AllOrNothing ==
    [][\A p \in Procs :
          ( /\ procs[p].op = "OAuthCallback" /\ procs[p].pc = "commit"
            /\ procs'[p].pc = "done" ) =>
              IF procs'[p].action \in {"login", "register"}
              THEN \E t \in sessions' \ sessions :
                      /\ t.JTI = procs'[p].jwt.jti
                      /\ \E u \in users' : u.ID = t.UserID
                      /\ \E a \in oauthAccounts' :
                            /\ a.Provider = procs[p].provider
                            /\ a.ProviderID = procs[p].providerID
                            /\ a.UserID = t.UserID
              ELSE UNCHANGED <<users, oauthAccounts, sessions>>
      ]_vars

\* C18: no two live identity rows share (user, provider), and no two share
\* (provider, provider id).
C18_IdentitiesUnique ==
    \A a, b \in oauthAccounts :
        a.ID # b.ID =>
            /\ ~(a.UserID = b.UserID /\ a.Provider = b.Provider)
            /\ ~(a.Provider = b.Provider /\ a.ProviderID = b.ProviderID)

\* a grant that is unused and unexpired
Active(r) == ~r.Used /\ r.ExpiresAt > now

\* C20: no email has two active grants at once.
C20_OneActiveGrant ==
    \A r, t \in passwordResets :
        r.ID # t.ID /\ r.Email = t.Email => ~(Active(r) /\ Active(t))

\* p's reset request runs its rate-limit lookup in this step
ChecksRate(p) ==
    /\ procs[p].op = "RequestPasswordReset" /\ procs[p].pc = "recent"
    /\ procs'[p] # procs[p]

\* C19: a reset request whose email has an unused grant created within the
\* last 15 minutes is answered 429 RateLimited and adds no grant; a request
\* of a registered email whose grants are all used or expired passes the
\* rate limit, and a request that passed it adds one unused grant of its
\* email and is answered 200.
C19_RateLimit ==
    [][\A p \in Procs :
          /\ ( /\ ChecksRate(p)
               /\ \E r \in passwordResets :
                     /\ r.Email = procs[p].email /\ ~r.Used
                     /\ r.CreatedAt > now - RateLimitWindow ) =>
                 /\ procs'[p].pc = "done" /\ procs'[p].code = 429
                 /\ procs'[p].action = "RateLimited"
                 /\ UNCHANGED passwordResets
          /\ ( /\ ChecksRate(p)
               /\ procs[p].user.ID # 0
               /\ \A r \in passwordResets :
                     r.Email = procs[p].email => r.Used \/ r.ExpiresAt <= now ) =>
                 procs'[p].pc = "markused"
          /\ ( /\ procs[p].op = "RequestPasswordReset" /\ procs[p].pc = "create"
               /\ procs'[p] # procs[p] ) =>
                 /\ procs'[p].pc = "done" /\ procs'[p].code = 200
                 /\ \E r \in passwordResets' \ passwordResets :
                       /\ passwordResets' = passwordResets \cup {r}
                       /\ r.Email = procs[p].email /\ ~r.Used
                       /\ r.ExpiresAt > now
      ]_vars

\* C19 witness: one request was answered RateLimited; another, whose lookup
\* found the email's earlier grant already used, was answered 200 and its
\* new grant is active, within 15 minutes of the earlier one, which a
\* confirmation (it set the new password) had consumed.
C19_Witness ==
    \E p, q \in Procs :
        /\ procs[p].op = "RequestPasswordReset" /\ procs[p].pc = "done"
        /\ procs[p].action = "RateLimited"
        /\ procs[q].op = "RequestPasswordReset" /\ procs[q].pc = "done"
        /\ procs[q].code = 200 /\ procs[q].prior
        /\ \E r, t \in passwordResets :
              /\ r.Email = t.Email /\ r.ID < t.ID
              /\ r.Used /\ Active(t)
              /\ t.CreatedAt < r.CreatedAt + RateLimitWindow
              /\ \E u \in users : u.Email = r.Email /\ u.Password = HashPassword("pw2")

\* the email has an account
HasAccount(email) == \E u \in users : u.Email = email

\* C21: the answer to a reset request does not tell whether its email has an
\* account: of two answered requests, one for an email with an account and
\* one for an email without, the responses (code and message) are the same.
\* (An email without account has no grant, so its requests are answered 200
\* whatever was requested before.)
C21_SameAnswerWithOrWithoutAccount ==
    \A p, q \in Procs :
        ( /\ procs[p].op = "RequestPasswordReset" /\ procs[p].pc = "done"
          /\ procs[q].op = "RequestPasswordReset" /\ procs[q].pc = "done"
          /\ HasAccount(procs[p].email) /\ ~HasAccount(procs[q].email) ) =>
            /\ procs[p].code = procs[q].code
            /\ procs[p].action = procs[q].action

\* C22: no two confirmations presenting the same reset token both succeed.
C22_OneChangePerGrant ==
    \A p, q \in Procs :
        ( /\ p # q
          /\ procs[p].op = "ConfirmPasswordReset" /\ procs[p].pc = "done"
          /\ procs[q].op = "ConfirmPasswordReset" /\ procs[q].pc = "done"
          /\ procs[p].token = procs[q].token ) =>
            ~(procs[p].code = 200 /\ procs[q].code = 200)

\* C23: a confirmation whose token matches no grant, or only grants that
\* are used or at or past their expiry, is answered 400 InvalidOrExpired by
\* its lookup, and no user, grant or session row changes.
C23_DeadGrantChangesNothing ==
    [][\A p \in Procs :
          ( /\ Starts(p, "ConfirmPasswordReset")
            /\ \A r \in passwordResets :
                  r.Token = HashTokenSHA256(procs'[p].token) =>
                      r.Used \/ r.ExpiresAt <= now ) =>
              /\ procs'[p].pc = "done" /\ procs'[p].code = 400
              /\ procs'[p].action = "InvalidOrExpired"
              /\ UNCHANGED <<users, passwordResets, sessions>>
      ]_vars

\* C23 witness: one confirmation was refused for a token whose grant an
\* earlier confirmation had consumed (it set the new password), another for
\* a token whose unused grant has expired.
C23_Witness ==
    \E p, q \in Procs :
        /\ procs[p].op = "ConfirmPasswordReset" /\ procs[p].pc = "done"
        /\ procs[p].action = "InvalidOrExpired"
        /\ \E r \in passwordResets :
              /\ r.Token = HashTokenSHA256(procs[p].token) /\ r.Used
              /\ \E u \in users : /\ u.Email = r.Email
                                  /\ u.Password = HashPassword("pw2")
        /\ procs[q].op = "ConfirmPasswordReset" /\ procs[q].pc = "done"
        /\ procs[q].action = "InvalidOrExpired"
        /\ \E r \in passwordResets :
              /\ r.Token = HashTokenSHA256(procs[q].token)
              /\ ~r.Used /\ r.ExpiresAt <= now

\* the session rows holding the digest of a cleartext
Holding(refreshToken) ==
    {s \in sessions : s.RefreshToken = HashTokenSHA256(refreshToken)}

\* C24: a step that creates a session row draws a fresh cleartext and stores
\* its digest, which no other session holds, in the row's refresh-token
\* field; no step changes that field afterwards; and a refresh or revoke
\* request presenting a cleartext whose digest a session holds finds one
\* such session only and works on that row.
C24_RefreshTokenRoundTrip ==
    [][/\ \A t \in sessions' :
             (\A s \in sessions : s.ID # t.ID) =>
                 /\ nextID'.token = nextID.token + 1
                 /\ t.RefreshToken = HashTokenSHA256(nextID.token)
                 /\ \A s \in sessions' : s.RefreshToken = t.RefreshToken => s = t
       /\ \A s \in sessions :
             \E t \in sessions' : t.ID = s.ID /\ t.RefreshToken = s.RefreshToken
       /\ \A p \in Procs :
             ( /\ Starts(p, "RefreshToken") \/ Starts(p, "RevokeToken")
               /\ Holding(procs'[p].refreshToken) # {} ) =>
                 /\ Cardinality(Holding(procs'[p].refreshToken)) = 1
                 /\ procs'[p].action # "NotFound"
                 /\ procs'[p].pc # "done" =>
                       procs'[p].session \in Holding(procs'[p].refreshToken)
      ]_vars

\* C24 witness: a refresh presenting the cleartext generated for a session that
\* an OAuth callback created has succeeded on that session, and a revoke
\* presenting the cleartext of a session of a password account has revoked
\* it.
C24_Witness ==
    \E p, q \in Procs :
        /\ procs[p].op = "RefreshToken" /\ procs[p].pc = "done"
        /\ procs[p].code = 200
        /\ \E s \in Holding(procs[p].refreshToken) :
              /\ s.JTI = procs[p].jwt.jti
              /\ \E u \in users : u.ID = s.UserID /\ u.AccountType = AccountTypeOAuth
        /\ procs[q].op = "RevokeToken" /\ procs[q].pc = "done"
        /\ procs[q].code = 200
        /\ \E s \in Holding(procs[q].refreshToken) :
              /\ s.Revoked
              /\ \E u \in users : u.ID = s.UserID /\ u.AccountType = AccountTypeEmail

\* C25: the cleartext of every session's refresh token has been handed to
\* a client, so that the session's holder can present it to refresh and
\* revoke.
C25_EveryHolderHasItsToken ==
    \A s \in sessions : \E t \in cookies : s \in Holding(t)

\* C26: a refresh request presenting the token of a session that is not
\* revoked and past its expires-at takes the expiry path, and the step of
\* that path answers 401 Expired without a bearer token and leaves the
\* session revoked.
C26_ExpiryRevokes ==
    [][\A p \in Procs :
          /\ ( /\ Starts(p, "RefreshToken")
               /\ \E s \in Holding(procs'[p].refreshToken) :
                     ~s.Revoked /\ s.ExpiresAt < now ) =>
                 procs'[p].pc = "expire"
          /\ ( /\ procs[p].op = "RefreshToken" /\ procs[p].pc = "expire"
               /\ procs'[p] # procs[p] ) =>
                 /\ procs'[p].pc = "done" /\ procs'[p].code = 401
                 /\ procs'[p].action = "Expired" /\ procs'[p].jwt = NoJWT
                 /\ \E t \in sessions' : /\ t.ID = procs[p].session.ID
                                          /\ t.Revoked
      ]_vars

\* C26 witness: a refresh was answered Expired, the session of its token is
\* past its expires-at and revoked, and no revoke request was ever made for
\* it.
C26_Witness ==
    \E p \in Procs :
        /\ procs[p].op = "RefreshToken" /\ procs[p].pc = "done"
        /\ procs[p].action = "Expired"
        /\ \E s \in Holding(procs[p].refreshToken) : s.Revoked /\ s.ExpiresAt < now
        /\ \A q \in Procs : procs[q].op # "RevokeToken"
        /\ Cardinality(sessions) = 1

\* C27: the step of a refresh that answers 200 replaces the access-token
\* identifier of its session by the one of the returned token and changes
\* nothing else: every other column of that row and every other session row
\* stay as they were, and no row is added or removed.
C27_RotateChangesOnlyJTI ==
    [][\A p \in Procs :
          ( /\ procs[p].op = "RefreshToken" /\ procs[p].pc = "save"
            /\ procs'[p].pc = "done" /\ procs'[p].code = 200 ) =>
              \E s \in sessions :
                 /\ s.ID = procs[p].session.ID
                 /\ sessions' = (sessions \ {s}) \cup
                                   {[s EXCEPT !.JTI = procs'[p].jwt.jti]}
      ]_vars

\* C28: the step of a refresh that answers 200 leaves the jti of the
\* returned token as the access-token identifier of its session.
C28_ReturnedJTIIsStored ==
    [][\A p \in Procs :
          ( /\ procs[p].op = "RefreshToken" /\ procs[p].pc = "save"
            /\ procs'[p].pc = "done" /\ procs'[p].code = 200 ) =>
              \E t \in sessions' : /\ t.ID = procs[p].session.ID
                                   /\ t.JTI = procs'[p].jwt.jti
      ]_vars

\* C29: a revoke request whose token no session holds is answered 404
\* NotFound and changes no session; one whose token a session holds goes on
\* to its write whether or not the session is revoked already, and that
\* write answers 200, leaves the session revoked and every other session as
\* it was, and changes nothing at all when the session was revoked already.
C29_RevokeIdempotent ==
    [][\A p \in Procs :
          /\ ( /\ Starts(p, "RevokeToken")
               /\ Holding(procs'[p].refreshToken) = {} ) =>
                 /\ procs'[p].pc = "done" /\ procs'[p].code = 404
                 /\ procs'[p].action = "NotFound"
                 /\ UNCHANGED sessions
          /\ ( /\ Starts(p, "RevokeToken")
               /\ Holding(procs'[p].refreshToken) # {} ) =>
                 /\ procs'[p].pc = "save"
                 /\ procs'[p].session \in Holding(procs'[p].refreshToken)
          /\ ( /\ procs[p].op = "RevokeToken" /\ procs[p].pc = "save"
               /\ procs'[p] # procs[p] ) =>
                 /\ procs'[p].pc = "done" /\ procs'[p].code = 200
                 /\ \E t \in sessions' : /\ t.ID = procs[p].session.ID
                                          /\ t.Revoked
                 /\ \A s \in sessions :
                       s.ID # procs[p].session.ID => s \in sessions'
                 /\ ( procs[p].session \in sessions /\ procs[p].session.Revoked ) =>
                       UNCHANGED sessions
      ]_vars

\* C29 witness: a revoke request that found its session revoked already was
\* answered 200 and the session is revoked, and a revoke request presenting
\* a token that no session holds was answered NotFound.
C29_Witness ==
    \E p, q \in Procs :
        /\ procs[p].op = "RevokeToken" /\ procs[p].pc = "done"
        /\ procs[p].code = 200 /\ procs[p].prior
        /\ \E s \in Holding(procs[p].refreshToken) : s.Revoked
        /\ procs[q].op = "RevokeToken" /\ procs[q].pc = "done"
        /\ procs[q].action = "NotFound"
        /\ Holding(procs[q].refreshToken) = {}

\* the account kind of the user with the given id, in a users table
KindOf(rows, id) == First({u \in rows : u.ID = id}, NoUser).AccountType

\* C30: an unlink request for a provider of which its account has no live
\* identity is answered 404 NotLinked and changes no user and no identity;
\* the step that ends a successful unlink answers 200, removes exactly the
\* identity it found, and makes the account an email account if it was
\* hybrid and has no identity left, leaving the kind as it was otherwise.
C30_UnlinkContract ==
    [][\A p \in Procs :
          /\ ( /\ procs[p].op = "UnlinkOAuthAccount" /\ procs[p].pc = "handler"
               /\ procs'[p] # procs[p]
               /\ \E u \in users : u.ID = procs[p].bearer.sub
               /\ \A a \in oauthAccounts :
                     ~(a.UserID = procs[p].bearer.sub /\ a.Provider = procs[p].provider) ) =>
                 /\ procs'[p].pc = "done" /\ procs'[p].code = 404
                 /\ procs'[p].action = "NotLinked"
                 /\ UNCHANGED <<users, oauthAccounts>>
          /\ ( /\ procs[p].op = "UnlinkOAuthAccount" /\ procs[p].pc = "commit"
               /\ procs'[p] # procs[p] ) =>
                 LET id == procs[p].bearer.sub
                     left == {a \in oauthAccounts' : a.UserID = id}
                 IN /\ procs'[p].pc = "done" /\ procs'[p].code = 200
                    /\ oauthAccounts' = oauthAccounts \ {procs[p].oauthAccount}
                    /\ KindOf(users', id) =
                          IF KindOf(users, id) = AccountTypeHybrid /\ left = {}
                          THEN AccountTypeEmail
                          ELSE KindOf(users, id)
                    /\ \A u \in users : u.ID # id => u \in users'
      ]_vars

\* C31: the mail never decides anything. Register and RequestPasswordReset
\* answer 200 and store their rows (the session, the grant) while the mail
\* they started is still on its way; and when the goroutine of a mail ends,
\* with the mail sent, with an error or at its deadline, no stored row and
\* no request, answered or in flight, changes.
C31_MailNeverDecides ==
    [][/\ \A p \in Procs :
            /\ (procs[p].op = "Register" /\ procs[p].pc = "session"
                    /\ procs'[p] # procs[p])
                => /\ procs'[p].pc = "done" /\ procs'[p].code = 200
                   /\ procs'[p].jwt = GetSignedKey(procs[p].user.ID)
                   /\ \E s \in sessions' \ sessions :
                         s.UserID = procs[p].user.ID /\ ~s.Revoked
                   /\ \E m \in mailbox' :
                         /\ m.kind = "welcome" /\ m.to = procs[p].user.Email
                         /\ m.status = "pending"
            /\ (procs[p].op = "RequestPasswordReset" /\ procs[p].pc = "create"
                    /\ procs'[p] # procs[p])
                => /\ procs'[p].pc = "done" /\ procs'[p].code = 200
                   /\ \E r \in passwordResets' \ passwordResets :
                         /\ r.Email = procs[p].email /\ ~r.Used
                         /\ \E m \in mailbox' :
                               /\ m.kind = "reset" /\ m.to = r.Email
                               /\ HashTokenSHA256(m.token) = r.Token
                               /\ m.status = "pending"
       /\ (\E m \in mailbox : m.status = "pending" /\ m \notin mailbox')
            => UNCHANGED <<users, oauthAccounts, sessions, oauthStates,
                           passwordResets, procs, cookies, issued>>]_vars

\* the welcome mail failed and the reset mail ran into its deadline; the
\* account, its session and the grant are stored and the reset request was
\* answered 200
C31_Witness ==
    /\ \E m \in mailbox : m.kind = "welcome" /\ m.status = "failed"
            /\ \E u \in users : u.Email = m.to /\ \E s \in sessions : s.UserID = u.ID
    /\ \E m \in mailbox : m.kind = "reset" /\ m.status = "timeout"
            /\ \E r \in passwordResets : r.Token = HashTokenSHA256(m.token)
    /\ \E p \in Procs : procs[p].op = "RequestPasswordReset" /\ procs[p].pc = "done"
            /\ procs[p].code = 200 /\ HasAccount(procs[p].email)

\* C32: Send validates before it touches the network: a call with no
\* recipient, or made by a client whose SMTP_EMAIL is not set, returns an
\* error and has not dialed the server.
C32_SendValidatesFirst ==
    \A m \in mailbox :
        (m.kind = "call" /\ m.status = "returned"
            /\ (Len(m.to) = 0 \/ m.env.SMTP_EMAIL = ""))
        => m.err # "" /\ ~m.dialed

\* a call without recipients and a call without sender have both returned
\* their error, neither dialed; the second names a recipient
C32_Witness ==
    /\ \E m \in mailbox : /\ m.kind = "call" /\ m.status = "returned"
                          /\ Len(m.to) = 0 /\ m.env.SMTP_EMAIL # ""
                          /\ m.err = "no recipients provided" /\ ~m.dialed
    /\ \E m \in mailbox : /\ m.kind = "call" /\ m.status = "returned"
                          /\ Len(m.to) > 0 /\ m.env.SMTP_EMAIL = ""
                          /\ m.err # "" /\ ~m.dialed

\* C33: a confirm that ends with an error leaves all of its writes or none:
\* when it fails, the account has the password of the request only if
\* the grant is used and every session of the account is revoked, and the
\* grant is used only if every session of the account is revoked.
C33_ConfirmAllOrNothing ==
    [][\A p \in Procs :
        (/\ procs[p].op = "ConfirmPasswordReset"
         /\ procs[p].pc \in {"password", "used", "revoke"}
         /\ procs'[p].pc = "done" /\ procs'[p].code # 200)
        => LET changed == \E u \in users' : /\ u.ID = procs[p].user.ID
                                            /\ u.Password = HashPassword(procs[p].password)
               used    == \E r \in passwordResets' : /\ r.ID = procs[p].passwordReset.ID
                                                     /\ r.Used
               revoked == \A s \in sessions' : s.UserID = procs[p].user.ID => s.Revoked
           IN (changed => used) /\ (used => revoked)]_vars

\* C34: when the engine runs for a pair (provider, provider id) that has an
\* identity it takes the login branch for the account that owns the
\* identity, whatever the email of the profile; and that branch answers
\* login with a token of the owner, adds exactly one session, of the owner,
\* leaves every user row as it was (no account, no kind, no email changes),
\* adds and removes no identity, and changes of the identity rows at most
\* the email snapshot of the identity that matched.
C34_ExistingIdentityLogsIn ==
    [][\A p \in Procs :
        /\ \A id \in ProviderIDs :
            (/\ EngineRuns(p) /\ procs'[p].providerID = id
             /\ ~NoIdentity(procs[p].provider, id))
            => /\ procs'[p].pc = "commit" /\ procs'[p].branch = "existing"
               /\ \E a \in oauthAccounts :
                     /\ a.Provider = procs[p].provider /\ a.ProviderID = id
                     /\ procs'[p].oauthAccount = a /\ procs'[p].user.ID = a.UserID
        /\ Commits(p, "existing")
            => /\ procs'[p].code = 200 /\ procs'[p].action = "login"
               /\ procs'[p].jwt.sub = procs[p].oauthAccount.UserID
               /\ sessions \subseteq sessions'
               /\ Cardinality(sessions' \ sessions) = 1
               /\ \A s \in sessions' \ sessions :
                     /\ s.UserID = procs[p].oauthAccount.UserID /\ ~s.Revoked
                     /\ s.JTI = procs'[p].jwt.jti
               /\ users' = users
               /\ {a.ID : a \in oauthAccounts'} = {a.ID : a \in oauthAccounts}
               /\ \A a \in oauthAccounts : \E b \in oauthAccounts' :
                     /\ b.ID = a.ID /\ b.UserID = a.UserID
                     /\ b.Provider = a.Provider /\ b.ProviderID = a.ProviderID
                     /\ (a.ID # procs[p].oauthAccount.ID => b = a)]_vars

\* an oauth account with its one identity has logged in a second time, with
\* a profile whose email is not the account's: two sessions, one identity
\* whose snapshot is the other email, the account's email as it was
C34_Witness ==
    /\ Cardinality(users) = 1 /\ Cardinality(oauthAccounts) = 1
    /\ \E u \in users, a \in oauthAccounts :
          /\ a.UserID = u.ID /\ u.AccountType = AccountTypeOAuth
          /\ a.Email # u.Email
          /\ Cardinality({s \in sessions : s.UserID = u.ID}) = 2
          /\ \E p \in Procs :
                /\ procs[p].op = "OAuthCallback" /\ procs[p].pc = "done"
                /\ procs[p].action = "login" /\ procs[p].jwt.sub = u.ID
                /\ procs[p].email = a.Email

\* C35: when the engine runs for a pair (provider, provider id) that has no
\* identity, and the email of the profile belongs to an oauth or hybrid
\* account that has an identity of that provider, the callback is answered
\* 409 "already linked" and no user, identity or session row changes.
C35_DuplicateLinkRefused ==
    [][\A p \in Procs, id \in ProviderIDs, e \in Emails :
        (/\ EngineRuns(p) /\ procs'[p].providerID = id /\ procs'[p].email = e
         /\ NoIdentity(procs[p].provider, id)
         /\ \E u \in users :
               /\ u.Email = e
               /\ u.AccountType \in {AccountTypeOAuth, AccountTypeHybrid}
               /\ \E a \in LinksOf(u) : a.Provider = procs[p].provider)
        => /\ procs'[p].pc = "done" /\ procs'[p].code = 409
           /\ procs'[p].action = "already linked" /\ procs'[p].jwt = NoJWT
           /\ UNCHANGED <<users, oauthAccounts, sessions>>]_vars

\* a callback with a second provider id was refused as already linked: the
\* account of its email has one identity, of the same provider and of
\* another provider id, and one session
C35_Witness ==
    \E p \in Procs, u \in users :
        /\ procs[p].op = "OAuthCallback" /\ procs[p].pc = "done"
        /\ procs[p].code = 409 /\ procs[p].action = "already linked"
        /\ u.Email = procs[p].email /\ u.AccountType = AccountTypeOAuth
        /\ Cardinality(LinksOf(u)) = 1
        /\ \A a \in LinksOf(u) : /\ a.Provider = procs[p].provider
                                 /\ a.ProviderID # procs[p].providerID
        /\ Cardinality({s \in sessions : s.UserID = u.ID}) = 1

\* the suffixes of the base that no user row has taken, the base itself
\* being suffix 0, among the candidates below the ceiling
FreeSuffixes(base) ==
    LET taken == {u.Username : u \in users}
    IN {n \in 0..(UsernameCeiling - 1) : <<base, n>> \notin taken}

\* C36: a generation that has returned for an email holds the lower-cased
\* local part of the email if no user has that name, else the name base_n
\* of the smallest n >= 1 that no user has; the name it holds is the name of
\* no user; it has failed exactly when the base and the names base_1 ..
\* base_999, the candidates below the ceiling, are all taken; a generation
\* that runs is at a suffix within the ceiling, and every generation
\* returns.
C36_SmallestFreeUsername ==
    /\ [](\A p \in Procs :
            procs[p].op = "generateUsername" =>
                IF procs[p].pc = "count"
                THEN procs[p].suffix \in 1..UsernameCeiling
                ELSE LET base == ToLower(LocalPart[procs[p].email])
                         free == FreeSuffixes(base)
                     IN IF free = {}
                        THEN procs[p].code = 500
                        ELSE /\ procs[p].code = 0
                             /\ procs[p].username[1] = base
                             /\ procs[p].username[2] \in free
                             /\ \A n \in free : procs[p].username[2] <= n
                             /\ \A u \in users : u.Username # procs[p].username)
    /\ \A p \in Procs :
          (procs[p].op = "generateUsername" /\ procs[p].pc = "count")
              ~> (procs[p].op = "generateUsername" /\ procs[p].pc = "done")

\* the table has bob and bob_1 but not bob_2; the generation for Bob@x.com
\* has returned bob_2
C36_Witness ==
    /\ {<<"bob", 0>>, <<"bob", 1>>} \subseteq {u.Username : u \in users}
    /\ \E p \in Procs : /\ procs[p].op = "generateUsername" /\ procs[p].pc = "done"
                        /\ procs[p].email = "Bob@x.com"
                        /\ procs[p].username = <<"bob", 2>>

\* the response codes of the service
ResponseCodes == {200, 201, 400, 401, 404, 409, 429, 500}

\* C37: every request that has ended has a response, and a request whose
\* handler returned an error has an error response: the code of the fiber
\* error, or 500 for an error that is not a fiber error; the error handler
\* does not panic.
C37_EveryErrorIsAnswered ==
    \A p \in Procs :
        (procs[p].op # "none" /\ procs[p].pc = "done")
        => /\ procs[p].code \in ResponseCodes
           /\ procs[p].action # "panic"
           /\ procs[p].action = "error" => procs[p].code = StatusInternalServerError

\* C38: one access-token identifier per session is live. After the step of
\* a refresh that answers 200, no token the session had before, stored or
\* read by the refresh, is the token of a session that is not revoked, save
\* the one returned; the gate lets a request pass only if the jti of its
\* bearer is the identifier stored in a session that is not revoked; and of
\* the tokens issued, at most one per session is so.
C38_OneLiveIdentifier ==
    [][/\ \A p \in Procs :
            ( /\ procs[p].op = "RefreshToken" /\ procs[p].pc = "save"
              /\ procs'[p].pc = "done" /\ procs'[p].code = 200 ) =>
                LET before == {s.JTI : s \in {r \in sessions :
                                                r.ID = procs[p].session.ID}}
                                 \cup {procs[p].session.JTI}
                IN \A b \in issued' :
                      (b.jti \in before /\ b # procs'[p].jwt)
                      => ~\E s \in sessions' : s.JTI = b.jti /\ ~s.Revoked
       /\ \A p \in Procs :
            ( /\ Starts(p, "GetMe") /\ procs'[p].pc = "handler" ) =>
                \E s \in sessions : s.JTI = procs'[p].bearer.jti /\ ~s.Revoked
       /\ \A s \in sessions' :
            Cardinality({b \in issued' : b.jti = s.JTI}) <= 1]_vars

\* a refresh of the one session was answered 200 with a token whose jti the
\* session stores, and a request that presented the token the session had
\* before, not yet expired, was refused by the gate
C38_Witness ==
    /\ Cardinality(sessions) = 1
    /\ \E p \in Procs, q \in Procs, s \in sessions :
          /\ procs[p].op = "RefreshToken" /\ procs[p].pc = "done"
          /\ procs[p].code = 200 /\ procs[p].jwt.jti = s.JTI /\ ~s.Revoked
          /\ procs[q].op = "GetMe" /\ procs[q].pc = "done" /\ procs[q].code = 401
          /\ procs[q].bearer \in issued /\ procs[q].bearer.sub = s.UserID
          /\ procs[q].bearer.jti # s.JTI /\ procs[q].bearer.exp >= now

\* C39: a password login for an email without account, for an account of
\* kind oauth, for an account without credential digest, or with a password
\* that is not the account's, is refused (401 Invalid credentials when the
\* account exists, 404 when it does not) and does not go on to create a
\* session.
C39_NoPasswordLoginForFederated ==
    [][\A p \in Procs, e \in Emails, pw \in Passwords :
        Login(p, e, pw) =>
            LET rows == {u \in users : u.Email = e}
            IN (\/ rows = {}
                \/ \E u \in rows :
                      \/ u.AccountType = AccountTypeOAuth
                      \/ u.Password = EmptyString
                      \/ ~ComparePassword(pw, u.Password))
               => /\ procs'[p].pc = "done"
                  /\ procs'[p].code = IF rows = {} THEN 404 ELSE 401
                  /\ procs'[p].jwt = NoJWT
                  /\ sessions' = sessions]_vars

\* C40: when Register, Login or an OAuth callback answers with a bearer
\* token, a session that is not revoked, of the subject of the token and
\* with the jti of the token, is stored.
C40_ReturnedTokenIsBacked ==
    [][\A p \in Procs :
        ( /\ procs[p].pc # "done" /\ procs'[p].pc = "done"
          /\ procs'[p].op \in {"Register", "Login", "OAuthCallback"}
          /\ procs'[p].jwt # NoJWT )
        => \E s \in sessions' : /\ s.JTI = procs'[p].jwt.jti
                                /\ s.UserID = procs'[p].jwt.sub
                                /\ ~s.Revoked]_vars

====
